---- MODULE Spec2Model ----
(***************************************************************************)
(* danphoto-api: the authentication boundary (JWT gate, login, identity    *)
(* resolver), the request pipeline of the REST handlers, and the base64    *)
(* asset decoder.                                                          *)
(*                                                                         *)
(* Strings whose characters matter (emails, image payloads) are sequences  *)
(* of one-character strings.  An HMAC-SHA256 signature is the tuple of     *)
(* what was signed and the key (a collision-free MAC).                     *)
(***************************************************************************)
EXTENDS Integers, Sequences, FiniteSets, TLC

VARIABLES
    now,        \* the wall clock, Unix seconds (chrono::Utc::now().timestamp())
    ticks,      \* how many times the clock has advanced
    usuarios,   \* rows of table usuarios: [id, email, password_hash]
    pc,         \* position of the request in flight: idle, gate, body, done
    req,        \* the request in flight: [handler, header, body]
    auth,       \* the result of the BearerAuth extractor for this request
    gateRuns,   \* how many times the extractor ran for this request
    resp,       \* the response sent: [status, error, token, token_type]
    dbLog,      \* the tables this request has changed
    fsLog,      \* the asset directories this request has written to
    bodyRuns,   \* how many times the handler's body ran for this request
    lookup,     \* what get_by_email returned to this request: [called, err, user]
    userId,     \* the user id the identity resolver gave this request (0: none)
    prevRejection, \* the last response of the gate to an earlier request: [err, resp]
    issued,     \* token codec: the token last returned by create_token
    issueReq,   \* token codec: the arguments of that call: [email, exp_secs, at]
    payload,    \* asset decoder: the image_base64 argument
    parts,      \* asset decoder: how payload was put together: [form, mime, body]
    decoded,    \* asset decoder: the result for payload: [ok, err, bytes, ext]
    bareDecoded, \* asset decoder: the result for the body alone
    resource,   \* assets: the resource class whose handlers run in this behaviour
    files,      \* assets: the directory of that class: [id, ext] -> [exists, bytes]
    rows,       \* assets: the table of that class: id -> [exists, url]
    lastOp,     \* assets: the last operation and what it returned
    stores,     \* assets: the calls of save_*_image_base64 so far
    uploads,    \* concurrency: the overlapping uploads to one id, step by step
    favoritos,  \* table favoritos: [user, pose] -> number of rows
    favReqs,    \* the favorites requests received, each pending or done
    poseHashtags, \* table hashtag_image: pose -> the hashtags tied to it
    hashOp,     \* the last update_pose_hashtags request and its answer
    sesionPoses, \* table sesion_image: sesion -> the poses in it
    moveOp,     \* the request moving favorites into a sesion, step by step
    pageOp,     \* the last paginated listing: its query and its response
    prevLogin   \* the last 401 of login to an earlier request: [cause, resp]

vars == <<now, ticks, usuarios, pc, req, auth, gateRuns, resp, dbLog, fsLog, bodyRuns,
          lookup, userId, prevRejection, issued, issueReq, payload, parts, decoded,
          bareDecoded, resource, files, rows, lastOp, stores, uploads,
          favoritos, favReqs, poseHashtags, hashOp, sesionPoses, moveOp, pageOp, prevLogin>>

clockVars == <<now, ticks>>

pipelineVars == <<pc, req, auth, gateRuns, resp, dbLog, fsLog, bodyRuns, lookup, userId>>
codecVars == <<issued, issueReq>>
decoderVars == <<payload, parts, decoded, bareDecoded>>
assetVars == <<resource, files, rows, lastOp, stores>>
raceVars == <<uploads>>
favVars == <<favoritos, favReqs>>
tagVars == <<poseHashtags, hashOp>>
sesionVars == <<sesionPoses, moveOp>>
pageVars == <<pageOp>>
loginVars == <<prevLogin>>
moreVars == <<raceVars, favVars, tagVars, sesionVars, pageVars, loginVars>>

\* the users and the poses of the favorites and sesiones tables
FavUsers == {1, 2}
FavPoses == {1, 2}

\* the hashtags, and the sesiones: 1 exists, 2 is the one a request creates
Hashtags == {1, 2}
Sesiones == {1, 2}

NoHashOp == [pose |-> 0, given |-> <<>>, status |-> 0, failed |-> {},
             before |-> [p \in FavPoses |-> {}]]
NoMove == [kind |-> "", user |-> 0, sesion |-> 0, phase |-> "", snapshot |-> {},
           todo |-> {}, added |-> {}, removed |-> {}, status |-> 0, cause |-> ""]
NoPage == [handler |-> "", page |-> <<0, 0>>, limit |-> <<0, 0>>, count |-> <<0, 0>>,
           build |-> "", status |-> 0, panic |-> "",
           out |-> [page |-> <<0, 0>>, limit |-> 0, total_pages |-> <<0, 0>>,
                    offset |-> <<0, 0>>]]

(***************************************************************************)
(* Bounds of the model.                                                    *)
(***************************************************************************)
MaxTicks == 3        \* clock steps taken in a behaviour of SpecToken
MaxPad == 1          \* white space put before and after a base64 body
StartTime == 1000000 \* the clock of the initial state
MaxStores == 2       \* the calls of the save function in one behaviour of SpecServe
MaxChunk == 2        \* the bytes one write call of write_all can take
MaxFavReqs == 2      \* the favorites requests in flight in one behaviour of SpecFavorites
MaxTags == 2         \* the length of hashtag_ids in a request

(***************************************************************************)
(* Strings.                                                                *)
(***************************************************************************)
IsSpace(c) == c \in {" ", "\t", "\n"}

RECURSIVE TrimStart(_)
TrimStart(s) == IF s # <<>> /\ IsSpace(Head(s)) THEN TrimStart(Tail(s)) ELSE s

RECURSIVE TrimEnd(_)
TrimEnd(s) ==
    IF s # <<>> /\ IsSpace(s[Len(s)]) THEN TrimEnd(SubSeq(s, 1, Len(s) - 1)) ELSE s

\* str::trim
Trim(s) == TrimEnd(TrimStart(s))

\* str::starts_with
StartsWith(s, p) == Len(s) >= Len(p) /\ SubSeq(s, 1, Len(p)) = p

(***************************************************************************)
(* Token codec (jsonwebtoken, HS256).                                      *)
(***************************************************************************)
Secret == "jwt_secret"       \* state.jwt_secret
OtherSecret == "other_key"   \* any key that is not the server's

\* Validation::default(): leeway of 60 seconds on exp
Leeway == 60
\* login's exp_secs
LoginTtl == 86400

EmailA == <<"a", "@", "x">>
EmailB == <<"b", "@", "x">>
Emails == {EmailA, EmailB}

\* HMAC over header and claims: equal exactly when key and signed content are
Sign(key, alg, sub, exp) == [key |-> key, alg |-> alg, sub |-> sub, exp |-> exp]

NoSig == [key |-> "", alg |-> "", sub |-> <<>>, exp |-> 0]
NoToken == [wf |-> FALSE, alg |-> "", sub |-> <<>>, exp |-> 0, sig |-> NoSig]
\* a string that is not three base64url segments holding a Claims object
MalformedToken == [wf |-> FALSE, alg |-> "x", sub |-> <<>>, exp |-> 0, sig |-> NoSig]

\* create_token: Claims {sub: email, exp: now + exp_secs} signed with Header::default()
create_token_off_by_ttl(email, secret, exp_secs, t) ==
    [wf |-> TRUE, alg |-> "HS256", sub |-> email, exp |-> t,
     sig |-> Sign(secret, "HS256", email, t)]

create_token(email, secret, exp_secs, t) ==
    [wf |-> TRUE, alg |-> "HS256", sub |-> email, exp |-> t + exp_secs,
     sig |-> Sign(secret, "HS256", email, t + exp_secs)]

\* decode::<Claims>(token, DecodingKey::from_secret(secret), Validation::default())
\* at clock t: structure, algorithm, signature, then exp against t - leeway
decode_no_signature_check(token, secret, t) ==
    IF ~token.wf THEN [ok |-> FALSE, sub |-> <<>>, exp |-> 0]
    ELSE IF token.alg # "HS256" THEN [ok |-> FALSE, sub |-> <<>>, exp |-> 0]
    ELSE IF token.exp < t - Leeway THEN [ok |-> FALSE, sub |-> <<>>, exp |-> 0]
    ELSE [ok |-> TRUE, sub |-> token.sub, exp |-> token.exp]

decode_no_expiry_check(token, secret, t) ==
    IF ~token.wf THEN [ok |-> FALSE, sub |-> <<>>, exp |-> 0]
    ELSE IF token.alg # "HS256" THEN [ok |-> FALSE, sub |-> <<>>, exp |-> 0]
    ELSE IF token.sig # Sign(secret, token.alg, token.sub, token.exp)
        THEN [ok |-> FALSE, sub |-> <<>>, exp |-> 0]
    ELSE [ok |-> TRUE, sub |-> token.sub, exp |-> token.exp]

decode(token, secret, t) ==
    IF ~token.wf THEN [ok |-> FALSE, sub |-> <<>>, exp |-> 0]
    ELSE IF token.alg # "HS256" THEN [ok |-> FALSE, sub |-> <<>>, exp |-> 0]
    ELSE IF token.sig # Sign(secret, token.alg, token.sub, token.exp)
        THEN [ok |-> FALSE, sub |-> <<>>, exp |-> 0]
    ELSE IF token.exp < t - Leeway THEN [ok |-> FALSE, sub |-> <<>>, exp |-> 0]
    ELSE [ok |-> TRUE, sub |-> token.sub, exp |-> token.exp]

(***************************************************************************)
(* Request gate (BearerAuth).                                              *)
(* A header value is absent, or bytes that are text or not; a text value   *)
(* is a prefix followed by the rest.                                       *)
(***************************************************************************)
NoHeader == [present |-> FALSE, text |-> FALSE, prefix |-> "", token |-> NoToken]
Header(prefix, token) ==
    [present |-> TRUE, text |-> TRUE, prefix |-> prefix, token |-> token]
NonTextHeader ==
    [present |-> TRUE, text |-> FALSE, prefix |-> "", token |-> NoToken]

AuthOk(sub) == [ok |-> TRUE, sub |-> sub, err |-> ""]
AuthErr(e) == [ok |-> FALSE, sub |-> <<>>, err |-> e]
NoAuth == [ok |-> FALSE, sub |-> <<>>, err |-> "not run"]

\* BearerAuth::from_header_and_secret
from_header_and_secret_any_scheme(auth_header, secret, t) ==
    IF ~auth_header.present THEN AuthErr("Missing")
    ELSE IF ~auth_header.text THEN AuthErr("Invalid")
    ELSE LET token_data == decode(auth_header.token, secret, t)
         IN  IF ~token_data.ok THEN AuthErr("Invalid") ELSE AuthOk(token_data.sub)

from_header_and_secret(auth_header, secret, t) ==
    IF ~auth_header.present THEN AuthErr("Missing")
    ELSE IF ~auth_header.text THEN AuthErr("Invalid")
    ELSE IF auth_header.prefix # "Bearer " THEN AuthErr("Invalid")
    ELSE LET token_data == decode(auth_header.token, secret, t)
         IN  IF ~token_data.ok THEN AuthErr("Invalid") ELSE AuthOk(token_data.sub)

NoResp == [status |-> 0, error |-> "", token |-> NoToken, token_type |-> ""]
ErrResp(status, msg) ==
    [status |-> status, error |-> msg, token |-> NoToken, token_type |-> ""]
OkResp(status) == [status |-> status, error |-> "", token |-> NoToken, token_type |-> ""]

\* impl IntoResponse for AuthError
AuthErrorResponse_forbidden_when_missing(e) ==
    IF e = "Missing" THEN ErrResp(403, "Authorization header missing")
    ELSE ErrResp(401, "Invalid or expired token")

AuthErrorResponse(e) ==
    IF e = "Missing" THEN ErrResp(401, "Authorization header missing")
    ELSE ErrResp(401, "Invalid or expired token")


(***************************************************************************)
(* Table usuarios, the credential verifier and the identity resolver.      *)
(***************************************************************************)
HashOf(p) == [wf |-> TRUE, pw |-> p]
MalformedHash == [wf |-> FALSE, pw |-> ""]
NoUser == [id |-> 0, email |-> <<>>, password_hash |-> MalformedHash]
UserA == [id |-> 1, email |-> EmailA, password_hash |-> HashOf("correct")]
UserB == [id |-> 2, email |-> EmailB, password_hash |-> MalformedHash]
AllUsers == {UserA, UserB}

NoLookup == [called |-> FALSE, err |-> FALSE, user |-> NoUser]

\* AuthRepositoryImpl::get_by_email: the query fails (DomainError::Repository),
\* or yields the row with that email, or none
get_by_email(table, email) ==
    {[called |-> TRUE, err |-> TRUE, user |-> NoUser]} \cup
    (IF \E u \in table : u.email = email
        THEN {[called |-> TRUE, err |-> FALSE, user |-> u] : u \in {v \in table : v.email = email}}
        ELSE {[called |-> TRUE, err |-> FALSE, user |-> NoUser]})

\* bcrypt::verify(password, hash).unwrap_or(false)
bcrypt_verify_fail_open(password, hash) ==
    IF ~hash.wf THEN TRUE ELSE hash.pw = password

bcrypt_verify(password, hash) ==
    IF ~hash.wf THEN FALSE ELSE hash.pw = password

\* impl IntoResponse for ApiError; msg is the DomainError's Display text
ApiErrorResponse(kind, msg) ==
    CASE kind = "NotFound" -> ErrResp(404, msg)
      [] kind = "Validation" -> ErrResp(400, msg)
      [] OTHER -> ErrResp(500, "Error interno del servidor")

\* user_id_from_auth, given what get_by_email returned
user_id_from_auth_unauthorized(r) ==
    IF r.err THEN [ok |-> FALSE, id |-> 0, resp |-> ApiErrorResponse("Repository", "")]
    ELSE IF r.user = NoUser
        THEN [ok |-> FALSE, id |-> 0, resp |-> ErrResp(401, "Usuario no encontrado")]
    ELSE [ok |-> TRUE, id |-> r.user.id, resp |-> NoResp]

user_id_from_auth_nil_user(r) ==
    IF r.err THEN [ok |-> FALSE, id |-> 0, resp |-> ApiErrorResponse("Repository", "")]
    ELSE [ok |-> TRUE, id |-> r.user.id, resp |-> NoResp]

user_id_from_auth(r) ==
    IF r.err THEN [ok |-> FALSE, id |-> 0, resp |-> ApiErrorResponse("Repository", "")]
    ELSE IF r.user = NoUser
        THEN [ok |-> FALSE, id |-> 0,
              resp |-> ApiErrorResponse("NotFound", "not found: Usuario no encontrado")]
    ELSE [ok |-> TRUE, id |-> r.user.id, resp |-> NoResp]

\* which of login's early returns a lookup result and a password lead to
LoginCause(r, password) ==
    IF r.err THEN "lookup"
    ELSE IF r.user = NoUser THEN "unknown email"
    ELSE IF ~bcrypt_verify(password, r.user.password_hash) THEN "wrong password"
    ELSE ""

\* login answering an unknown email in words of its own
login_user_not_found(body, r, t) ==
    IF r.err THEN ErrResp(500, "Error al buscar usuario")
    ELSE IF r.user = NoUser THEN ErrResp(401, "Usuario no encontrado")
    ELSE IF ~bcrypt_verify(body.password, r.user.password_hash)
        THEN ErrResp(401, "Usuario o contrasena incorrectos")
    ELSE [status |-> 200, error |-> "",
          token |-> create_token(r.user.email, Secret, LoginTtl, t),
          token_type |-> "Bearer"]

\* login, given what get_by_email(body.email.trim()) returned, at clock t
login(body, r, t) ==
    IF r.err THEN ErrResp(500, "Error al buscar usuario")
    ELSE IF r.user = NoUser THEN ErrResp(401, "Usuario o contrasena incorrectos")
    ELSE IF ~bcrypt_verify(body.password, r.user.password_hash)
        THEN ErrResp(401, "Usuario o contrasena incorrectos")
    ELSE [status |-> 200, error |-> "",
          token |-> create_token(r.user.email, Secret, LoginTtl, t),
          token_type |-> "Bearer"]


(***************************************************************************)
(* Asset decoder: the part of save_*_image_base64 before the file is       *)
(* written.  Text is a sequence of characters.                             *)
(***************************************************************************)
\* base64::alphabet::STANDARD
B64Alphabet ==
    << "A", "B", "C", "D", "E", "F", "G", "H", "I", "J", "K", "L", "M",
       "N", "O", "P", "Q", "R", "S", "T", "U", "V", "W", "X", "Y", "Z",
       "a", "b", "c", "d", "e", "f", "g", "h", "i", "j", "k", "l", "m",
       "n", "o", "p", "q", "r", "s", "t", "u", "v", "w", "x", "y", "z",
       "0", "1", "2", "3", "4", "5", "6", "7", "8", "9", "+", "/" >>

IsB64(c) == \E i \in 1..64 : B64Alphabet[i] = c
B64Val(c) == (CHOOSE i \in 1..64 : B64Alphabet[i] = c) - 1

\* str::to_lowercase
ToLowerChar(c) ==
    IF \E i \in 1..26 : B64Alphabet[i] = c
    THEN B64Alphabet[(CHOOSE i \in 1..26 : B64Alphabet[i] = c) + 26]
    ELSE c
ToLower(s) == [i \in 1..Len(s) |-> ToLowerChar(s[i])]

\* str::split_once: the parts around the first occurrence of sep
SplitOnce(s, sep) ==
    LET at == {i \in 1..(Len(s) - Len(sep) + 1) : SubSeq(s, i, i + Len(sep) - 1) = sep}
    IN  IF at = {} THEN [found |-> FALSE, left |-> <<>>, right |-> <<>>]
        ELSE LET i == CHOOSE j \in at : \A k \in at : j <= k
             IN  [found |-> TRUE, left |-> SubSeq(s, 1, i - 1),
                  right |-> SubSeq(s, i + Len(sep), Len(s))]

\* the bytes of one group of four symbols, the last `pad` of them being "="
B64Group(g, pad) ==
    LET v(k) == IF k <= 4 - pad THEN B64Val(g[k]) ELSE 0
        n == v(1) * 262144 + v(2) * 4096 + v(3) * 64 + v(4)
        b == << n \div 65536, (n \div 256) % 256, n % 256 >>
    IN  SubSeq(b, 1, 3 - pad)

\* the last group: full, or "xxx=" or "xx==" whose unused low bits are zero
B64PadOf(g) ==
    IF g[4] # "=" THEN 0 ELSE IF g[3] # "=" THEN 1 ELSE 2

B64GroupOk(g, last) ==
    LET pad == IF last THEN B64PadOf(g) ELSE 0
    IN  /\ \A k \in 1..(4 - pad) : IsB64(g[k])
        /\ pad = 1 => B64Val(g[3]) % 4 = 0
        /\ pad = 2 => B64Val(g[2]) % 16 = 0

\* general_purpose::STANDARD.decode: canonical padding required, no
\* whitespace, no symbol outside the alphabet, no trailing bits
RECURSIVE STANDARD_decode(_)
STANDARD_decode(s) ==
    IF s = <<>> THEN [ok |-> TRUE, bytes |-> <<>>]
    ELSE IF Len(s) < 4 THEN [ok |-> FALSE, bytes |-> <<>>]
    ELSE LET g == SubSeq(s, 1, 4)
             last == Len(s) = 4
         IN  IF ~B64GroupOk(g, last) THEN [ok |-> FALSE, bytes |-> <<>>]
             ELSE LET rest == STANDARD_decode(SubSeq(s, 5, Len(s)))
                  IN  IF ~rest.ok THEN rest
                      ELSE [ok |-> TRUE,
                            bytes |-> B64Group(g, IF last THEN B64PadOf(g) ELSE 0)
                                      \o rest.bytes]

DataColon == <<"d", "a", "t", "a", ":">>
Base64Marker == <<";", "b", "a", "s", "e", "6", "4", ",">>
ImagePng == <<"i", "m", "a", "g", "e", "/", "p", "n", "g">>
ImageJpeg == <<"i", "m", "a", "g", "e", "/", "j", "p", "e", "g">>

NotDecoded == [ok |-> FALSE, err |-> "not run", bytes |-> <<>>, ext |-> ""]
DecodeErr(e) == [ok |-> FALSE, err |-> e, bytes |-> <<>>, ext |-> ""]

\* save_pose_image_base64 up to the bytes.is_empty() check: payload and
\* extension, then the decoding (the write of the file is the handler's save
\* step); the save_* functions of the other handlers read the same
save_pose_image_base64_case_sensitive(image_base64) ==
    LET split == SplitOnce(SubSeq(image_base64, 6, Len(image_base64)), Base64Marker)
        wrapped == StartsWith(image_base64, DataColon)
        ext == IF wrapped /\ StartsWith(Trim(split.left), ImagePng) THEN "png" ELSE "jpg"
        b64 == IF wrapped THEN Trim(split.right) ELSE Trim(image_base64)
        bytes == STANDARD_decode(b64)
    IN  IF wrapped /\ ~split.found THEN DecodeErr("formato base64 invalido")
        ELSE IF ~bytes.ok THEN DecodeErr("base64 invalido")
        ELSE IF bytes.bytes = <<>> THEN DecodeErr("imagen vacia")
        ELSE [ok |-> TRUE, err |-> "", bytes |-> bytes.bytes, ext |-> ext]

save_pose_image_base64_one_reason(image_base64) ==
    LET split == SplitOnce(SubSeq(image_base64, 6, Len(image_base64)), Base64Marker)
        wrapped == StartsWith(image_base64, DataColon)
        ext == IF wrapped /\ StartsWith(ToLower(Trim(split.left)), ImagePng)
               THEN "png" ELSE "jpg"
        b64 == IF wrapped THEN Trim(split.right) ELSE Trim(image_base64)
        bytes == STANDARD_decode(b64)
    IN  IF wrapped /\ ~split.found THEN DecodeErr("formato base64 invalido")
        ELSE IF ~bytes.ok THEN DecodeErr("base64 invalido")
        ELSE IF bytes.bytes = <<>> THEN DecodeErr("base64 invalido")
        ELSE [ok |-> TRUE, err |-> "", bytes |-> bytes.bytes, ext |-> ext]

save_pose_image_base64(image_base64) ==
    LET split == SplitOnce(SubSeq(image_base64, 6, Len(image_base64)), Base64Marker)
        wrapped == StartsWith(image_base64, DataColon)
        ext == IF wrapped /\ StartsWith(ToLower(Trim(split.left)), ImagePng)
               THEN "png" ELSE "jpg"
        b64 == IF wrapped THEN Trim(split.right) ELSE Trim(image_base64)
        bytes == STANDARD_decode(b64)
    IN  IF wrapped /\ ~split.found THEN DecodeErr("formato base64 invalido")
        ELSE IF ~bytes.ok THEN DecodeErr("base64 invalido")
        ELSE IF bytes.bytes = <<>> THEN DecodeErr("imagen vacia")
        ELSE [ok |-> TRUE, err |-> "", bytes |-> bytes.bytes, ext |-> ext]


\* the ? operator of save_pose_image_base64 and impl IntoResponse for ApiError: what the
\* caller is sent when the decoding fails
DecodeResponse(d) ==
    CASE d.ok -> NoResp
      [] d.err = "formato base64 invalido" ->
            ApiErrorResponse("Validation",
                "validation: formato base64 invalido: se esperaba data:image/...;base64,...")
      [] d.err = "base64 invalido" ->
            ApiErrorResponse("Validation", "validation: base64 invalido: <DecodeError>")
      [] OTHER -> ApiErrorResponse("Validation", "validation: imagen vacia")

(***************************************************************************)
(* The routed handlers (create_router) and what each one's body does, in   *)
(* order.  A step is one fallible call of the handler:                     *)
(*   require_image  the image_base64.trim().is_empty() check               *)
(*   require_field  a check of another required field of the body         *)
(*   resolve        user_id_from_auth(state, auth.0)                       *)
(*   lookup         get_by_email(auth.0) whose None is kept (create_post)  *)
(*   save           save_*_image_base64(dir, id, image_base64)             *)
(*   write          a repository call that changes table                   *)
(*   read           a repository call that only reads                      *)
(*   serve          the probe and read of an asset file                    *)
(*   stop_if_empty  the early Ok when the user has no favorites            *)
(* opt: require (the step's failure ends the request), ignore (let _ =),   *)
(* blank_skips (a blank image skips the save), undo (the failure of the    *)
(* write removes the file saved before it).                                *)
(***************************************************************************)
Step(kind, target, opt) == [kind |-> kind, target |-> target, opt |-> opt]
RequireImage == Step("require_image", "", "require")
RequireField == Step("require_field", "", "require")
Resolve == Step("resolve", "usuarios", "require")
Lookup == Step("lookup", "usuarios", "require")
Save(dir) == Step("save", dir, "require")
SaveIfGiven_rejects_blank(dir) == Step("save", dir, "require")
SaveIfGiven(dir) == Step("save", dir, "blank_skips")
Write(table) == Step("write", table, "require")
WriteIgnored(table) == Step("write", table, "ignore")
WriteOrUndo(table, dir) == Step("write", table, dir)
Read(table) == Step("read", table, "require")
Serve(dir) == Step("serve", dir, "require")
StopIfEmpty == Step("stop_if_empty", "", "require")

\* auth: the handler takes a BearerAuth argument; json: it takes a Json body;
\* image: whether that body has an image_base64 field (no, required, optional)
H(auth_, json, image, ok, steps) ==
    [auth |-> auth_, json |-> json, image |-> image, ok |-> ok, steps |-> steps]

HandlerNames == {
    "list_eventos", "get_evento", "create_evento", "update_evento", "delete_evento",
    "list_theme_of_the_day", "get_theme_of_the_day_today", "get_theme_of_the_day",
    "get_theme_of_the_day_image", "create_theme_of_the_day", "update_theme_of_the_day",
    "delete_theme_of_the_day",
    "list_hashtags", "get_hashtag", "create_hashtag", "delete_hashtag",
    "get_hashtags_by_pose", "update_pose_hashtags", "add_hashtags_to_post",
    "list_poses", "list_poses_paginated", "get_pose", "create_pose", "get_pose_image",
    "delete_pose", "get_poses_by_hashtag", "get_poses_by_hashtag_paginated",
    "list_posts", "list_posts_paginated", "get_posts_by_theme_of_the_day", "get_post",
    "create_post", "get_post_image", "delete_post",
    "list_portfolio_categories", "create_portfolio_category", "update_portfolio_category",
    "delete_portfolio_category", "get_portfolio_images", "add_portfolio_image",
    "get_portfolio_image", "delete_portfolio_image",
    "get_favorite_poses", "is_pose_favorite", "add_pose_to_favorites",
    "remove_pose_from_favorites",
    "list_places", "get_place", "create_place", "update_place", "delete_place",
    "list_sesiones", "get_sesion", "get_poses_by_sesion", "create_sesion",
    "create_sesion_from_favorites", "add_poses_to_sesion", "add_favorites_to_sesion",
    "remove_pose_from_sesion", "update_sesion_cover", "delete_sesion",
    "get_profile", "update_profile", "update_profile_avatar",
    "health" }

HandlerOf(h) ==
    CASE h = "list_eventos" -> H(TRUE, FALSE, "no", 200, <<Read("eventos")>>)
      [] h = "get_evento" -> H(TRUE, FALSE, "no", 200, <<Read("eventos")>>)
      [] h = "create_evento" ->
            H(TRUE, TRUE, "required", 200,
              <<RequireImage, Save("eventos_images_dir"), Write("eventos")>>)
      [] h = "update_evento" ->
            H(TRUE, TRUE, "optional", 200,
              <<SaveIfGiven("eventos_images_dir"), Write("eventos")>>)
      [] h = "delete_evento" -> H(TRUE, FALSE, "no", 204, <<Write("eventos")>>)
      [] h = "list_theme_of_the_day" -> H(TRUE, FALSE, "no", 200, <<Read("theme_of_the_day")>>)
      [] h = "get_theme_of_the_day_today" ->
            H(TRUE, FALSE, "no", 200, <<Read("theme_of_the_day")>>)
      [] h = "get_theme_of_the_day" -> H(TRUE, FALSE, "no", 200, <<Read("theme_of_the_day")>>)
      [] h = "get_theme_of_the_day_image" ->
            H(FALSE, FALSE, "no", 200, <<Serve("theme_of_the_day_images_dir")>>)
      [] h = "create_theme_of_the_day" ->
            H(TRUE, TRUE, "required", 200,
              <<Save("theme_of_the_day_images_dir"), Write("theme_of_the_day")>>)
      [] h = "update_theme_of_the_day" ->
            H(TRUE, TRUE, "optional", 200,
              <<Save("theme_of_the_day_images_dir"), Write("theme_of_the_day")>>)
      [] h = "delete_theme_of_the_day" ->
            H(TRUE, FALSE, "no", 204, <<Write("theme_of_the_day")>>)
      [] h = "list_hashtags" -> H(TRUE, FALSE, "no", 200, <<Read("hashtags")>>)
      [] h = "get_hashtag" -> H(TRUE, FALSE, "no", 200, <<Read("hashtags")>>)
      [] h = "create_hashtag" -> H(TRUE, TRUE, "no", 200, <<Write("hashtags")>>)
      [] h = "delete_hashtag" -> H(TRUE, FALSE, "no", 204, <<Write("hashtags")>>)
      [] h = "get_hashtags_by_pose" -> H(TRUE, FALSE, "no", 200, <<Read("pose_hashtags")>>)
      [] h = "update_pose_hashtags" ->
            H(TRUE, TRUE, "no", 204,
              <<Read("pose_hashtags"), WriteIgnored("pose_hashtags")>>)
      [] h = "add_hashtags_to_post" -> H(TRUE, TRUE, "no", 204, <<Write("post_hashtags")>>)
      [] h = "list_poses" -> H(TRUE, FALSE, "no", 200, <<Read("poses")>>)
      [] h = "list_poses_paginated" -> H(TRUE, FALSE, "no", 200, <<Read("poses")>>)
      [] h = "get_pose" -> H(TRUE, FALSE, "no", 200, <<Read("poses")>>)
      [] h = "create_pose" ->
            H(TRUE, TRUE, "required", 200,
              <<RequireImage, Save("poses_images_dir"), Write("poses")>>)
      [] h = "get_pose_image" -> H(FALSE, FALSE, "no", 200, <<Serve("poses_images_dir")>>)
      [] h = "delete_pose" ->
            H(TRUE, FALSE, "no", 204, <<WriteIgnored("pose_hashtags"), Write("poses")>>)
      [] h = "get_poses_by_hashtag" -> H(TRUE, FALSE, "no", 200, <<Read("pose_hashtags")>>)
      [] h = "get_poses_by_hashtag_paginated" ->
            H(TRUE, FALSE, "no", 200, <<Read("pose_hashtags")>>)
      [] h = "list_posts" -> H(TRUE, FALSE, "no", 200, <<Read("posts")>>)
      [] h = "list_posts_paginated" -> H(TRUE, FALSE, "no", 200, <<Read("posts")>>)
      [] h = "get_posts_by_theme_of_the_day" -> H(TRUE, FALSE, "no", 200, <<Read("posts")>>)
      [] h = "get_post" -> H(TRUE, FALSE, "no", 200, <<Read("posts")>>)
      [] h = "create_post" ->
            H(TRUE, TRUE, "required", 200,
              <<RequireImage, RequireField, Lookup, Save("posts_images_dir"),
                Write("posts")>>)
      [] h = "get_post_image" -> H(FALSE, FALSE, "no", 200, <<Serve("posts_images_dir")>>)
      [] h = "delete_post" -> H(TRUE, FALSE, "no", 204, <<Write("posts")>>)
      [] h = "list_portfolio_categories" ->
            H(TRUE, FALSE, "no", 200, <<Read("portfolio_categories")>>)
      [] h = "create_portfolio_category" ->
            H(TRUE, TRUE, "no", 200, <<Write("portfolio_categories")>>)
      [] h = "update_portfolio_category" ->
            H(TRUE, TRUE, "no", 200, <<Write("portfolio_categories")>>)
      [] h = "delete_portfolio_category" ->
            H(TRUE, FALSE, "no", 204, <<Write("portfolio_categories")>>)
      [] h = "get_portfolio_images" -> H(TRUE, FALSE, "no", 200, <<Read("portfolio_images")>>)
      [] h = "add_portfolio_image" ->
            H(TRUE, TRUE, "required", 200,
              <<RequireImage, Save("portfolio_images_dir"),
                WriteOrUndo("portfolio_images", "portfolio_images_dir")>>)
      [] h = "get_portfolio_image" ->
            H(FALSE, FALSE, "no", 200, <<Serve("portfolio_images_dir")>>)
      [] h = "delete_portfolio_image" ->
            H(TRUE, FALSE, "no", 204, <<Write("portfolio_images")>>)
      [] h = "get_favorite_poses" -> H(TRUE, FALSE, "no", 200, <<Resolve, Read("favorites")>>)
      [] h = "is_pose_favorite" -> H(TRUE, FALSE, "no", 200, <<Resolve, Read("favorites")>>)
      [] h = "add_pose_to_favorites" ->
            H(TRUE, FALSE, "no", 204, <<Resolve, Write("favorites")>>)
      [] h = "remove_pose_from_favorites" ->
            H(TRUE, FALSE, "no", 204, <<Resolve, Write("favorites")>>)
      [] h = "list_places" -> H(TRUE, FALSE, "no", 200, <<Read("places")>>)
      [] h = "get_place" -> H(TRUE, FALSE, "no", 200, <<Read("places")>>)
      [] h = "create_place" ->
            H(TRUE, TRUE, "required", 200,
              <<RequireImage, Save("places_images_dir"), Write("places")>>)
      [] h = "update_place" ->
            H(TRUE, TRUE, "optional", 200,
              <<SaveIfGiven("places_images_dir"), Write("places")>>)
      [] h = "delete_place" -> H(TRUE, FALSE, "no", 204, <<Write("places")>>)
      [] h = "list_sesiones" -> H(TRUE, FALSE, "no", 200, <<Read("sesiones")>>)
      [] h = "get_sesion" -> H(TRUE, FALSE, "no", 200, <<Read("sesiones")>>)
      [] h = "get_poses_by_sesion" -> H(TRUE, FALSE, "no", 200, <<Read("sesion_poses")>>)
      [] h = "create_sesion" -> H(TRUE, TRUE, "no", 200, <<Write("sesiones")>>)
      [] h = "create_sesion_from_favorites" ->
            H(TRUE, TRUE, "no", 200,
              <<Resolve, Write("sesiones"), Read("favorites"), StopIfEmpty,
                Write("sesion_poses"), Write("favorites")>>)
      [] h = "add_poses_to_sesion" -> H(TRUE, TRUE, "no", 204, <<Write("sesion_poses")>>)
      [] h = "add_favorites_to_sesion" ->
            H(TRUE, FALSE, "no", 204,
              <<Resolve, Read("favorites"), StopIfEmpty, Write("sesion_poses"),
                Write("favorites")>>)
      [] h = "remove_pose_from_sesion" -> H(TRUE, FALSE, "no", 204, <<Write("sesion_poses")>>)
      [] h = "update_sesion_cover" -> H(TRUE, TRUE, "no", 200, <<Write("sesiones")>>)
      [] h = "delete_sesion" -> H(TRUE, FALSE, "no", 204, <<Write("sesiones")>>)
      [] h = "get_profile" -> H(TRUE, FALSE, "no", 200, <<Resolve, Read("usuarios")>>)
      [] h = "update_profile" -> H(TRUE, TRUE, "no", 200, <<Resolve, Write("usuarios")>>)
      [] h = "update_profile_avatar" ->
            H(TRUE, TRUE, "required", 200,
              <<RequireImage, Resolve, Save("profile_avatars_dir"), Write("usuarios")>>)
      [] OTHER -> H(FALSE, FALSE, "no", 200, <<>>)

Handlers == [h \in HandlerNames |-> HandlerOf(h)]


(***************************************************************************)
(* Running a handler's body from step i.  st is what the request has done  *)
(* so far: [db, fs, lookup, uid].  The result is the set of ways the body  *)
(* can end: each repository and filesystem call may fail.                  *)
(***************************************************************************)
Ended(r, st) ==
    [resp |-> r, db |-> st.db, fs |-> st.fs, lookup |-> st.lookup, uid |-> st.uid]

\* a repository is a dyn trait object returning Result<_, DomainError>
DomainErrors ==
    { ApiErrorResponse("NotFound", "not found"),
      ApiErrorResponse("Validation", "validation"),
      ApiErrorResponse("Repository", "") }

RECURSIVE RunBody(_, _, _, _, _, _)
RunBody(h, i, b, sub, table, st) ==
    LET steps == Handlers[h].steps IN
    IF i > Len(steps) THEN {Ended(OkResp(Handlers[h].ok), st)}
    ELSE
    LET s == steps[i]
        go(st2) == RunBody(h, i + 1, b, sub, table, st2)
    IN
    CASE s.kind = "require_image" ->
            IF b = "blank"
            THEN {Ended(ApiErrorResponse("Validation", "validation: image_base64 es requerido"), st)}
            ELSE go(st)
      [] s.kind = "require_field" ->
            {Ended(ApiErrorResponse("Validation", "validation: campo requerido"), st)}
            \cup go(st)
      [] s.kind = "resolve" ->
            UNION { LET u == user_id_from_auth(r)
                        st2 == [st EXCEPT !.lookup = r, !.uid = u.id]
                    IN  IF u.ok THEN go(st2) ELSE {Ended(u.resp, st2)}
                    : r \in get_by_email(table, sub) }
      [] s.kind = "lookup" ->
            UNION { LET st2 == [st EXCEPT !.lookup = r, !.uid = r.user.id]
                    IN  IF r.err THEN {Ended(ApiErrorResponse("Repository", ""), st2)}
                        ELSE go(st2)
                    : r \in get_by_email(table, sub) }
      [] s.kind = "save" ->
            CASE b = "good" ->
                    { Ended(ApiErrorResponse("Repository", ""), st),
                      Ended(ApiErrorResponse("Repository", ""),
                            [st EXCEPT !.fs = @ \cup {s.target}]) }
                    \cup go([st EXCEPT !.fs = @ \cup {s.target}])
              [] b = "garbage" ->
                    {Ended(ApiErrorResponse("Validation", "validation: base64 invalido"), st)}
              [] b = "blank" ->
                    IF s.opt = "blank_skips" THEN go(st)
                    ELSE {Ended(ApiErrorResponse("Validation", "validation: imagen vacia"), st)}
              [] OTHER -> go(st)
      [] s.kind = "write" ->
            go([st EXCEPT !.db = @ \cup {s.target}]) \cup
            ( CASE s.opt = "ignore" -> go(st)
                [] s.opt = "require" -> {Ended(e, st) : e \in DomainErrors}
                [] OTHER ->
                    {Ended(e, [st EXCEPT !.fs = @ \ {s.opt}]) : e \in DomainErrors}
                    \cup {Ended(e, st) : e \in DomainErrors} )
      [] s.kind = "read" -> go(st) \cup {Ended(e, st) : e \in DomainErrors}
      [] s.kind = "serve" ->
            go(st) \cup { Ended(ApiErrorResponse("NotFound", "not found"), st),
                          Ended(ApiErrorResponse("Repository", ""), st) }
      [] OTHER -> {Ended(OkResp(Handlers[h].ok), st)} \cup go(st)

(***************************************************************************)
(* The requests a client can send.                                         *)
(***************************************************************************)
Fresh(sub, t) == create_token(sub, Secret, LoginTtl, t)
InLeeway(sub, t) == create_token(sub, Secret, 0 - Leeway, t)
Expired(sub, t) == create_token(sub, Secret, 0 - Leeway - 1, t)

\* tokens that the server's key did not sign as they stand
ForgedTokens(t) ==
    { create_token(EmailA, OtherSecret, LoginTtl, t),
      [Fresh(EmailA, t) EXCEPT !.sub = EmailB],
      [Expired(EmailA, t) EXCEPT !.exp = t + LoginTtl],
      [Fresh(EmailA, t) EXCEPT !.sig = [@ EXCEPT !.key = "flipped"]] }

TokenInputs(t) ==
    {Fresh(e, t) : e \in Emails} \cup {InLeeway(EmailA, t), Expired(EmailA, t)}
    \cup ForgedTokens(t)
    \cup {[Fresh(EmailA, t) EXCEPT !.alg = "none"], MalformedToken}

\* present, text, and not "Bearer <token>"
UnparseableHeaders(t) ==
    {NonTextHeader} \cup {Header(p, Fresh(EmailA, t)) : p \in {"Basic ", "bearer ", ""}}

HeaderInputs(t) ==
    {NoHeader} \cup UnparseableHeaders(t)
    \cup {Header("Bearer ", tok) : tok \in TokenInputs(t)}

BodiesOf(h) ==
    IF ~Handlers[h].json THEN {"none"}
    ELSE {"unparseable"} \cup
         ( CASE Handlers[h].image = "required" -> {"blank", "garbage", "good"}
             [] Handlers[h].image = "optional" -> {"absent", "blank", "garbage", "good"}
             [] OTHER -> {"json"} )

Padded(e) == <<" ">> \o e \o <<" ">>
LoginEmails == {EmailA, Padded(EmailA), EmailB, <<"z", "@", "x">>}
Passwords == {"correct", "wrong"}

Request(h, hdr, b, email, password) ==
    [handler |-> h, header |-> hdr, body |-> b, email |-> email, password |-> password]
NoReq == Request("", NoHeader, "none", <<>>, "")

(***************************************************************************)
(* The asset files: one directory and one table per resource class.  Every *)
(* save_*_image_base64 and every get_*_image has the same text up to the   *)
(* directory and the URL prefix; the pose ones are taken as the model.     *)
(***************************************************************************)
AssetIds == {1, 2}

\* for ext in ["png", "jpg", "jpeg"]
Exts == <<"png", "jpg", "jpeg">>
ExtSet == {Exts[i] : i \in DOMAIN Exts}

NoFile == [exists |-> FALSE, bytes |-> <<>>]
File(bytes) == [exists |-> TRUE, bytes |-> bytes]
EmptyDir == [k \in AssetIds \X ExtSet |-> NoFile]

NoUrl == [prefix |-> "", id |-> 0, suffix |-> ""]
NoRow == [exists |-> FALSE, url |-> NoUrl]
Row(url) == [exists |-> TRUE, url |-> url]
NoRows == [i \in AssetIds |-> NoRow]

\* the resource classes: the URL prefix of the save function, how the create
\* handler gets its id ("fresh": Uuid::new_v4(), "given": a field of the body,
\* "none": no create handler), whether it checks image_base64 for blank, what
\* the update handler does with image_base64 ("none": no update with image,
\* "skip_blank": saves unless absent or blank, "always": saves unless absent,
\* "avatar": saves under the caller's id after the resolver), whether a
\* failed insert removes the file, and whether the use case of the create
\* handler can refuse another field of the body after the file is saved
AssetResources ==
    [poses |->
        [prefix |-> "/api/poses/", create |-> "fresh", blankCheck |-> TRUE,
         update |-> "none", undo |-> FALSE, validates |-> FALSE, delete |-> TRUE],
     posts |->
        [prefix |-> "/api/posts/", create |-> "fresh", blankCheck |-> TRUE,
         update |-> "none", undo |-> FALSE, validates |-> FALSE, delete |-> TRUE],
     eventos |->
        [prefix |-> "/api/eventos/", create |-> "fresh", blankCheck |-> TRUE,
         update |-> "skip_blank", undo |-> FALSE, validates |-> TRUE, delete |-> TRUE],
     places |->
        [prefix |-> "/api/places/", create |-> "fresh", blankCheck |-> TRUE,
         update |-> "skip_blank", undo |-> FALSE, validates |-> FALSE, delete |-> TRUE],
     theme_of_the_day |->
        [prefix |-> "/api/theme-of-the-day/", create |-> "given", blankCheck |-> FALSE,
         update |-> "always", undo |-> FALSE, validates |-> TRUE, delete |-> TRUE],
     portfolio |->
        [prefix |-> "/api/portfolio/images/", create |-> "fresh", blankCheck |-> TRUE,
         update |-> "none", undo |-> TRUE, validates |-> FALSE, delete |-> TRUE],
     profile |->
        [prefix |-> "/api/profile/avatar", create |-> "none", blankCheck |-> TRUE,
         update |-> "avatar", undo |-> FALSE, validates |-> FALSE, delete |-> FALSE]]
AssetResourceNames == DOMAIN AssetResources

\* Ok(format!("/api/poses/{}/image", id)); update_profile_avatar passes the
\* literal "/api/profile/avatar" to the use case
ImageUrl(r, id, ext) ==
    IF r = "profile" THEN [prefix |-> AssetResources[r].prefix, id |-> 0, suffix |-> ""]
    ELSE [prefix |-> AssetResources[r].prefix, id |-> id, suffix |-> "/image"]

\* the images a client sends: a PNG data URL of one byte, a bare base64 body
\* of two bytes (stored as jpg), a blank one and one that is no base64
PngImage == DataColon \o ImagePng \o Base64Marker \o <<"Q", "Q", "=", "=">>
JpgImage == <<"Q", "U", "I", "=">>
BlankImage == <<" ">>
GoodImages == {PngImage, JpgImage}

AssetImages == GoodImages \cup {BlankImage, <<"Q", "!", "=", "=">>}

\* a second bare base64 body: one byte, stored as jpg
JpgImage2 == <<"Q", "w", "=", "=">>

\* what the decoding half of the save function makes of each of them
Decoding == [image \in AssetImages \cup {JpgImage2} |-> save_pose_image_base64(image)]

\* std::fs::write(&path, &bytes) that fails: the file is not opened, or it is
\* created or truncated and a part of the bytes is written
FailedWrites(file, bytes) ==
    {file} \cup {File(SubSeq(bytes, 1, k)) : k \in 0..(Len(bytes) - 1)}

SaveResult(ok, r, fs, d, url) ==
    [ok |-> ok, resp |-> r, files |-> fs, ext |-> d.ext, bytes |-> d.bytes, url |-> url]

\* save_pose_image_base64(base_dir, id, image_base64) on directory fs of
\* resource r: every outcome the decoding and the file system allow
save_image_base64_any_name(r, fs, id, image_base64) ==
    LET d == Decoding[image_base64]
        io == ApiErrorResponse("Repository", "")
    IN  IF ~d.ok THEN {SaveResult(FALSE, DecodeResponse(d), fs, d, NoUrl)}
        ELSE {SaveResult(TRUE, NoResp, [fs EXCEPT ![<<other, d.ext>>] = File(d.bytes)], d,
                         ImageUrl(r, id, d.ext)) : other \in AssetIds}
             \cup {SaveResult(FALSE, io, [fs EXCEPT ![<<id, d.ext>>] = f], d, NoUrl) :
                       f \in FailedWrites(fs[<<id, d.ext>>], d.bytes)}

save_image_base64(r, fs, id, image_base64) ==
    LET d == Decoding[image_base64]
        io == ApiErrorResponse("Repository", "")
    IN  IF ~d.ok THEN {SaveResult(FALSE, DecodeResponse(d), fs, d, NoUrl)}
        ELSE {SaveResult(TRUE, NoResp, [fs EXCEPT ![<<id, d.ext>>] = File(d.bytes)], d,
                         ImageUrl(r, id, d.ext))}
             \cup {SaveResult(FALSE, io, [fs EXCEPT ![<<id, d.ext>>] = f], d, NoUrl) :
                       f \in FailedWrites(fs[<<id, d.ext>>], d.bytes)}

ServeResult(status, error, bytes, ctype, ext) ==
    [status |-> status, error |-> error, bytes |-> bytes, ctype |-> ctype, ext |-> ext]

\* the loop of get_pose_image over the extensions in order, from the i-th on:
\* the first path that exists is read and returned
RECURSIVE Probe(_, _, _, _)
Probe(order, fs, id, i) ==
    IF i > Len(order)
    THEN {ServeResult(404, "not found: Imagen de pose no encontrada", <<>>, "", "")}
    ELSE IF fs[<<id, order[i]>>].exists
         THEN {ServeResult(200, "", fs[<<id, order[i]>>].bytes,
                           IF order[i] = "png" THEN "image/png" ELSE "image/jpeg", order[i]),
               ServeResult(500, "Error interno del servidor", <<>>, "", order[i])}
         ELSE Probe(order, fs, id, i + 1)

get_pose_image_jpg_first(fs, id) == Probe(<<"jpg", "png", "jpeg">>, fs, id, 1)

get_pose_image_png_only(fs, id) == Probe(<<"png">>, fs, id, 1)

get_pose_image(fs, id) == Probe(Exts, fs, id, 1)

\* create_router: what is registered at the path of the stored URL. "get": a
\* GET route to the serve handler; "none": no route has this path; "put":
\* the path is registered for PUT only
ImageRoute(r) ==
    CASE r \in {"poses", "posts", "theme_of_the_day", "portfolio"} -> "get"
      [] r = "profile" -> "put"
      [] OTHER -> "none"

\* a GET on the stored URL: the serve handler where one is routed, axum's 404
\* for a path without route and its 405 for a path without GET
RouteGet(r, fs, id) ==
    CASE ImageRoute(r) = "get" -> get_pose_image(fs, id)
      [] ImageRoute(r) = "put" -> {ServeResult(405, "", <<>>, "", "")}
      [] OTHER -> {ServeResult(404, "", <<>>, "", "")}

NoOp ==
    [op |-> "", id |-> 0, image |-> <<>>, status |-> 0, error |-> "", url |-> NoUrl,
     saved |-> FALSE, ext |-> "", bytes |-> <<>>, ctype |-> "", undo |-> "", cause |-> "", hadRow |-> FALSE,
     wrote |-> FALSE]

(***************************************************************************)
(* The request pipeline: one request at a time through extractor and body. *)
(***************************************************************************)
\* axum runs the extractors in argument order: BearerAuth is the first argument
FirstStage_skip_gate(h) == "body"

FirstStage(h) == IF Handlers[h].auth THEN "gate" ELSE "body"

InitRequest ==
    /\ now = StartTime
    /\ ticks = 0
    /\ prevRejection = [err |-> "", resp |-> NoResp]
    /\ usuarios \in SUBSET AllUsers
    /\ pc = "idle"
    /\ req = NoReq
    /\ auth = NoAuth
    /\ gateRuns = 0
    /\ bodyRuns = 0
    /\ resp = NoResp
    /\ dbLog = {}
    /\ fsLog = {}
    /\ lookup = NoLookup
    /\ userId = 0
    /\ issued = NoToken
    /\ issueReq = [email |-> <<>>, exp_secs |-> 0, at |-> 0]
    /\ payload = <<>>
    /\ parts = [form |-> "none", mime |-> <<>>, body |-> <<>>]
    /\ decoded = NotDecoded
    /\ bareDecoded = NotDecoded
    /\ uploads = <<>>
    /\ favoritos = [k \in FavUsers \X FavPoses |-> 0]
    /\ favReqs = <<>>
    /\ poseHashtags = [p \in FavPoses |-> {}]
    /\ hashOp = NoHashOp
    /\ sesionPoses = [s \in Sesiones |-> {}]
    /\ moveOp = NoMove
    /\ pageOp = NoPage
    /\ prevLogin = [cause |-> "", resp |-> NoResp]

\* no asset handler has run: empty directories and tables
Init ==
    /\ InitRequest
    /\ resource = ""
    /\ files = EmptyDir
    /\ rows = NoRows
    /\ lastOp = NoOp
    /\ stores = <<>>

Receive(h, hdr, b) ==
    /\ pc = "idle"
    /\ req' = Request(h, hdr, b, <<>>, "")
    /\ pc' = FirstStage(h)
    /\ auth' = NoAuth
    /\ gateRuns' = 0
    /\ bodyRuns' = 0
    /\ resp' = NoResp
    /\ dbLog' = {}
    /\ fsLog' = {}
    /\ lookup' = NoLookup
    /\ userId' = 0
    /\ UNCHANGED <<clockVars, usuarios, prevRejection, codecVars, decoderVars, assetVars, moreVars>>

\* impl FromRequestParts for BearerAuth
Gate ==
    /\ pc = "gate"
    /\ LET a == from_header_and_secret(req.header, Secret, now)
       IN  /\ auth' = a
           /\ gateRuns' = gateRuns + 1
           /\ IF a.ok
              THEN pc' = "body" /\ resp' = resp
              ELSE pc' = "done" /\ resp' = AuthErrorResponse(a.err)
    /\ UNCHANGED <<clockVars, usuarios, req, bodyRuns, dbLog, fsLog, lookup, userId,
                   prevRejection, codecVars, decoderVars, assetVars, moreVars>>

\* the Json extractor rejects the body: the handler's body does not run
RejectBody ==
    /\ pc = "body"
    /\ req.body = "unparseable"
    /\ pc' = "done"
    /\ resp' = ErrResp(400, "Failed to parse the request body as JSON")
    /\ UNCHANGED <<clockVars, usuarios, req, auth, gateRuns, bodyRuns, dbLog, fsLog,
                   lookup, userId, prevRejection, codecVars, decoderVars, assetVars, moreVars>>

Body ==
    /\ pc = "body"
    /\ req.body # "unparseable"
    /\ \E out \in RunBody(req.handler, 1, req.body, auth.sub, usuarios,
                          [db |-> {}, fs |-> {}, lookup |-> NoLookup, uid |-> 0]) :
            /\ resp' = out.resp
            /\ dbLog' = out.db
            /\ fsLog' = out.fs
            /\ lookup' = out.lookup
            /\ userId' = out.uid
    /\ bodyRuns' = bodyRuns + 1
    /\ pc' = "done"
    /\ UNCHANGED <<clockVars, usuarios, req, auth, gateRuns, prevRejection, codecVars,
                   decoderVars, assetVars, moreVars>>

Login(email, password) ==
    /\ pc = "idle"
    /\ \E r \in get_by_email(usuarios, Trim(email)) :
            LET out == login([email |-> email, password |-> password], r, now)
            IN  /\ lookup' = r
                /\ resp' = out
                /\ IF out.status = 200
                   THEN /\ issued' = out.token
                        /\ issueReq' = [email |-> r.user.email, exp_secs |-> LoginTtl,
                                        at |-> now]
                   ELSE UNCHANGED codecVars
    /\ req' = Request("login", NoHeader, "json", email, password)
    /\ pc' = "done"
    /\ auth' = NoAuth
    /\ gateRuns' = 0
    /\ bodyRuns' = 1
    /\ dbLog' = {}
    /\ fsLog' = {}
    /\ userId' = 0
    /\ UNCHANGED <<clockVars, usuarios, prevRejection, decoderVars, assetVars, moreVars>>

\* the response is sent and the request's context dropped
Respond ==
    /\ pc = "done"
    /\ pc' = "idle"
    /\ req' = NoReq
    /\ auth' = NoAuth
    /\ gateRuns' = 0
    /\ bodyRuns' = 0
    /\ resp' = NoResp
    /\ dbLog' = {}
    /\ fsLog' = {}
    /\ lookup' = NoLookup
    /\ userId' = 0
    /\ prevRejection' = IF gateRuns = 1 /\ ~auth.ok
                        THEN [err |-> auth.err, resp |-> resp]
                        ELSE prevRejection
    /\ prevLogin' = IF req.handler = "login" /\ resp.status = 401
                    THEN [cause |-> LoginCause(lookup, req.password), resp |-> resp]
                    ELSE prevLogin
    /\ UNCHANGED <<clockVars, usuarios, codecVars, decoderVars, assetVars>>
    /\ UNCHANGED <<raceVars, favVars, tagVars, sesionVars, pageVars>>

ReceiveAny ==
    /\ pc = "idle"
    /\ \E h \in HandlerNames : \E hdr \in HeaderInputs(now) : \E b \in BodiesOf(h) :
            Receive(h, hdr, b)

LoginAny ==
    /\ pc = "idle"
    /\ \E e \in LoginEmails : \E p \in Passwords : Login(e, p)

Next ==
    \/ ReceiveAny
    \/ Gate
    \/ RejectBody
    \/ Body
    \/ LoginAny
    \/ Respond

Spec == Init /\ [][Next]_vars

(***************************************************************************)
(* Properties of the request pipeline (Spec).                              *)
(***************************************************************************)
\* the request in hand was routed to a handler that takes BearerAuth and the
\* gate has answered
Gated ==
    /\ pc \in {"body", "done"}
    /\ req.handler \in HandlerNames
    /\ Handlers[req.handler].auth

HasStep(h, kind) ==
    \E i \in DOMAIN Handlers[h].steps : Handlers[h].steps[i].kind = kind

NothingDone ==
    /\ bodyRuns = 0
    /\ dbLog = {}
    /\ fsLog = {}
    /\ ~lookup.called

\* C1: a request without an Authorization header is answered Missing, a request
\* whose header is "Bearer <token>" with a token signed under another secret or
\* with a changed payload or signature is answered Invalid; both get 401 and
\* the handler's body never runs.
C1_GateRejectsMissingAndForged ==
    Gated =>
        /\ ~req.header.present => auth = AuthErr("Missing")
        /\ ( /\ req.header.present
             /\ req.header.text
             /\ req.header.prefix = "Bearer "
             /\ req.header.token \in ForgedTokens(now) ) => auth = AuthErr("Invalid")
        /\ ( \/ ~req.header.present
             \/ req.header \in {Header("Bearer ", tok) : tok \in ForgedTokens(now)} )
           => /\ pc = "done"
              /\ resp.status = 401
              /\ gateRuns = 1
              /\ NothingDone

C1_ForgedTokenRejected ==
    /\ pc = "done"
    /\ req.handler = "create_pose"
    /\ req.body = "good"
    /\ req.header = Header("Bearer ", [Fresh(EmailA, now) EXCEPT !.sub = EmailB])
    /\ auth = AuthErr("Invalid")
    /\ resp.status = 401

\* C2 as stated: a header that is present but is not "Bearer <token>" ends the
\* gate with reason Missing, as an absent header does.
C2_UnparseableHeaderIsMissing ==
    (Gated /\ req.header \in UnparseableHeaders(now)) => auth = AuthErr("Missing")

\* C2: a header that is present but is not "Bearer <token>" (another scheme, no
\* "Bearer " prefix, a value that is not text) ends the gate with reason
\* Invalid and the response "Invalid or expired token"; the reason is Missing
\* exactly when the header is absent.
C2_UnparseableHeaderIsInvalid ==
    Gated =>
        /\ req.header \in UnparseableHeaders(now) =>
              /\ auth = AuthErr("Invalid")
              /\ pc = "done"
              /\ resp = ErrResp(401, "Invalid or expired token")
              /\ NothingDone
        /\ (auth.err = "Missing") <=> ~req.header.present

C2_WrongSchemeRejectedInvalid ==
    /\ pc = "done"
    /\ req.header = Header("Basic ", Fresh(EmailA, now))
    /\ auth = AuthErr("Invalid")
    /\ resp.error = "Invalid or expired token"

\* the gate rejected the request in hand, and rejected an earlier one
Rejected == pc = "done" /\ gateRuns = 1 /\ ~auth.ok
TwoRejections == Rejected /\ prevRejection.err # ""

C6_LoginOutcome ==
    (pc = "done" /\ req.handler = "login") =>
        LET u == lookup.user
            matches == /\ u # NoUser
                       /\ u.password_hash.wf
                       /\ u.password_hash.pw = req.password
        IN  /\ lookup.called
            /\ dbLog = {} /\ fsLog = {}
            /\ resp.status \in {200, 401, 500}
            /\ (~lookup.err /\ u = NoUser) =>
                  \A v \in usuarios : v.email # Trim(req.email)
            /\ (~lookup.err /\ u # NoUser) =>
                  u \in usuarios /\ u.email = Trim(req.email)
            /\ lookup.err => resp.status = 500 /\ resp.token = NoToken
            /\ (~lookup.err /\ ~matches) => resp.status = 401 /\ resp.token = NoToken
            /\ (~lookup.err /\ matches) =>
                  /\ resp.status = 200
                  /\ resp.token_type = "Bearer"
                  /\ decode(resp.token, Secret, now).ok
                  /\ decode(resp.token, Secret, now).sub = u.email

C6_LoginSucceeded ==
    /\ pc = "done"
    /\ req.handler = "login"
    /\ req.email = Padded(EmailA)
    /\ resp.status = 200
    /\ resp.token.sub = EmailA

\* the handlers that call user_id_from_auth
ResolverHandlers ==
    { "get_profile", "update_profile", "update_profile_avatar",
      "get_favorite_poses", "is_pose_favorite", "add_pose_to_favorites",
      "remove_pose_from_favorites",
      "create_sesion_from_favorites", "add_favorites_to_sesion" }

\* the body of a handler has called get_by_email for the token's subject
Resolved ==
    /\ pc = "done"
    /\ req.handler \in HandlerNames
    /\ lookup.called

SubjectUnknown ==
    /\ Resolved
    /\ auth.ok
    /\ ~lookup.err
    /\ lookup.user = NoUser

MutatingHandlers ==
    {h \in HandlerNames : HasStep(h, "write") \/ HasStep(h, "save")}

\* C9: no handler changes a row or writes a file unless the gate answered
\* TokenValid for that same request before; the gate runs once per request,
\* before the body is parsed and before any repository or filesystem call.
C9_NoMutationWithoutValidToken ==
    /\ gateRuns <= 1
    /\ (dbLog # {} \/ fsLog # {}) =>
          /\ req.handler \in MutatingHandlers
          /\ gateRuns = 1
          /\ auth.ok
          /\ req.header.prefix = "Bearer "
          /\ decode(req.header.token, Secret, now).ok
          /\ decode(req.header.token, Secret, now).sub = auth.sub
    /\ pc = "gate" => gateRuns = 0 /\ resp = NoResp /\ NothingDone
    /\ (req.handler \in MutatingHandlers /\ pc \in {"body", "done"}) =>
          /\ gateRuns = 1
          /\ ~auth.ok => pc = "done" /\ resp.status = 401 /\ NothingDone
    /\ \A h \in MutatingHandlers : Handlers[h].auth

C9_MutationAfterValidToken ==
    /\ pc = "done"
    /\ req.handler = "create_pose"
    /\ gateRuns = 1
    /\ auth.ok
    /\ dbLog = {"poses"}
    /\ fsLog = {"poses_images_dir"}

(***************************************************************************)
(* The token codec against the clock (SpecToken): tokens are issued with   *)
(* any ttl, the clock advances, and the issued token is presented to a     *)
(* gated handler.                                                          *)
(***************************************************************************)
Ttls == {0 - Leeway - 1, 0 - Leeway, -1, 0, 1, LoginTtl}
TickDeltas == {1, Leeway, LoginTtl}

InitToken == Init /\ usuarios = AllUsers

\* create_token(email, secret, exp_secs) called at clock now
IssueToken(email, exp_secs) ==
    /\ pc = "idle"
    /\ issued' = create_token(email, Secret, exp_secs, now)
    /\ issueReq' = [email |-> email, exp_secs |-> exp_secs, at |-> now]
    /\ UNCHANGED <<clockVars, usuarios, pipelineVars, prevRejection, decoderVars, assetVars, moreVars>>

\* chrono::Utc::now() moves on between requests
Tick(d) ==
    /\ pc = "idle"
    /\ ticks < MaxTicks
    /\ now' = now + d
    /\ ticks' = ticks + 1
    /\ UNCHANGED <<usuarios, pipelineVars, prevRejection, codecVars, decoderVars, assetVars, moreVars>>

\* the issued token as it stands, and with its signature segment changed
IssuedHeaders ==
    { Header("Bearer ", issued),
      Header("Bearer ", [issued EXCEPT !.sig = [@ EXCEPT !.key = "flipped"]]) }

PresentIssued ==
    /\ pc = "idle"
    /\ issued # NoToken
    /\ \E hdr \in IssuedHeaders : Receive("get_profile", hdr, "none")

IssueAny ==
    /\ pc = "idle"
    /\ \E e \in Emails : \E ttl \in Ttls : IssueToken(e, ttl)

TickAny ==
    /\ pc = "idle"
    /\ \E d \in TickDeltas : Tick(d)

NextToken ==
    \/ IssueAny
    \/ TickAny
    \/ PresentIssued
    \/ Gate
    \/ Body
    \/ LoginAny
    \/ Respond

SpecToken == InitToken /\ [][NextToken]_vars

\* the gate has answered a request that presented the issued token as it stands
IssuedPresented ==
    /\ pc \in {"body", "done"}
    /\ gateRuns = 1
    /\ issued # NoToken
    /\ req.header = Header("Bearer ", issued)

C5_RoundTrip ==
    /\ (IssuedPresented /\ issueReq.exp_secs > 0 /\ now = issueReq.at) =>
          /\ auth = AuthOk(issueReq.email)
          /\ decode(issued, Secret, now).sub = issueReq.email
          /\ decode(issued, Secret, now).exp = issueReq.at + issueReq.exp_secs
    /\ (pc = "done" /\ req.handler = "login" /\ resp.status = 200) =>
          /\ resp.token = issued
          /\ issueReq.exp_secs = 86400
          /\ issueReq.at = now
          /\ issued.exp = now + 86400

C5_IssuedThenAccepted ==
    /\ IssuedPresented
    /\ issueReq.exp_secs = 1
    /\ issueReq.email = EmailB
    /\ now = issueReq.at
    /\ auth = AuthOk(EmailB)

(***************************************************************************)
(* The asset decoder on its inputs (SpecDecode): a body is decoded alone,  *)
(* then again behind each data URL header.                                 *)
(***************************************************************************)
Spaces(n) == [i \in 1..n |-> " "]

\* bodies the engine accepts, and the bytes they stand for
KnownBodies ==
    { <<<<"Q", "Q", "=", "=">>, <<65>>>>,
      <<<<"Q", "U", "I", "=">>, <<65, 66>>>>,
      <<<<"Q", "U", "J", "D">>, <<65, 66, 67>>>>,
      <<<<"Q", "U", "J", "D", "R", "A", "=", "=">>, <<65, 66, 67, 68>>>>,
      <<<<"/", "+", "8", "=">>, <<255, 239>>>> }

\* bodies it refuses: nothing, short, unpadded, trailing bits, a symbol outside
\* the alphabet, the URL-safe alphabet, padding inside, white space inside
BadBodies ==
    { <<>>,
      <<"Q", "Q", "=">>,
      <<"Q", "Q">>,
      <<"Q", "R", "=", "=">>,
      <<"Q", "!", "=", "=">>,
      <<"-", "_", "8", "=">>,
      <<"Q", "Q", "=", "=", "Q", "U", "J", "D">>,
      <<"Q", "U", " ", "J", "D">> }

CoreBodies == {kb[1] : kb \in KnownBodies} \cup BadBodies
Bodies == {Spaces(l) \o b \o Spaces(r) : l \in 0..MaxPad, r \in 0..MaxPad, b \in CoreBodies}

\* MIME parts that are image/png once trimmed and lowercased, and others
PngMimes ==
    { ImagePng,
      <<"I", "M", "A", "G", "E", "/", "P", "N", "G">>,
      <<"I", "m", "a", "g", "e", "/", "P", "n", "g">>,
      <<" ">> \o ImagePng \o <<" ">>,
      ImagePng \o <<"+", "x">> }
OtherMimes ==
    { ImageJpeg,
      <<"i", "m", "a", "g", "e", "/", "g", "i", "f">>,
      <<>>,
      <<"x">> \o ImagePng,
      <<"i", "m", "a", "g", "e", "/", "p", "n">> }
Mimes == PngMimes \cup OtherMimes

InitDecode ==
    /\ Init
    /\ usuarios = AllUsers

\* a client chooses the body of an image
Choose(b) ==
    /\ parts.form = "none"
    /\ payload' = b
    /\ parts' = [form |-> "bare", mime |-> <<>>, body |-> b]
    /\ UNCHANGED <<decoded, bareDecoded>>
    /\ UNCHANGED <<clockVars, usuarios, pipelineVars, prevRejection, codecVars, assetVars, moreVars>>

Decode ==
    /\ parts.form # "none"
    /\ decoded = NotDecoded
    /\ decoded' = save_pose_image_base64(payload)
    /\ bareDecoded' = IF parts.form = "bare" THEN decoded' ELSE bareDecoded
    /\ resp' = DecodeResponse(decoded')
    /\ UNCHANGED <<payload, parts>>
    /\ UNCHANGED <<pc, req, auth, gateRuns, dbLog, fsLog, bodyRuns, lookup, userId>>
    /\ UNCHANGED <<clockVars, usuarios, prevRejection, codecVars, assetVars, moreVars>>

\* the same body sent as a data URL with MIME part mime
Wrap(mime) ==
    /\ decoded # NotDecoded
    /\ parts.form = "bare"
    /\ payload' = DataColon \o mime \o Base64Marker \o parts.body
    /\ parts' = [parts EXCEPT !.form = "data", !.mime = mime]
    /\ decoded' = NotDecoded
    /\ UNCHANGED bareDecoded
    /\ UNCHANGED <<clockVars, usuarios, pipelineVars, prevRejection, codecVars, assetVars, moreVars>>

\* the same body behind "data:" and a MIME part, without ";base64,"
WrapNoMarker(mime) ==
    /\ decoded # NotDecoded
    /\ parts.form = "bare"
    /\ payload' = DataColon \o mime \o <<",">> \o parts.body
    /\ parts' = [parts EXCEPT !.form = "nomarker", !.mime = mime]
    /\ decoded' = NotDecoded
    /\ UNCHANGED bareDecoded
    /\ UNCHANGED <<clockVars, usuarios, pipelineVars, prevRejection, codecVars, assetVars, moreVars>>

ChooseAny == \E b \in Bodies : Choose(b)
WrapAny == \E m \in Mimes : Wrap(m)
WrapNoMarkerAny == \E m \in {ImagePng, ImageJpeg} : WrapNoMarker(m)

NextDecode ==
    \/ ChooseAny
    \/ Decode
    \/ WrapAny
    \/ WrapNoMarkerAny

SpecDecode == InitDecode /\ [][NextDecode]_vars

\* the body alone was accepted and the payload in hand has been decoded
Decoded == decoded # NotDecoded

\* C10: a valid base64 body, alone or behind "data:image/jpeg;base64," or
\* "data:image/png;base64,", decodes to the same bytes; the extension is png
\* exactly when the payload starts with "data:" and its MIME part, trimmed and
\* lowercased, starts with "image/png", and jpg for every other accepted
\* payload.
C10_DecoderClassification ==
    Decoded =>
        /\ \A kb \in KnownBodies :
              (parts.form = "bare" /\ Trim(parts.body) = kb[1]) =>
                  decoded.ok /\ decoded.bytes = kb[2]
        /\ (parts.form = "bare" /\ Trim(parts.body) \in BadBodies) => ~decoded.ok
        /\ parts.form = "data" =>
              /\ decoded.ok = bareDecoded.ok
              /\ decoded.bytes = bareDecoded.bytes
        /\ parts.form = "nomarker" => ~decoded.ok
        /\ decoded.ok =>
              /\ decoded.bytes # <<>>
              /\ decoded.ext \in {"png", "jpg"}
              /\ (decoded.ext = "png") <=>
                    (parts.form = "data" /\ parts.mime \in PngMimes)

C10_PngDataUrlDecoded ==
    /\ Decoded
    /\ parts.form = "data"
    /\ parts.mime = <<"I", "M", "A", "G", "E", "/", "P", "N", "G">>
    /\ parts.body = <<"Q", "U", "I", "=">>
    /\ bareDecoded.ok
    /\ bareDecoded.ext = "jpg"
    /\ decoded.ext = "png"
    /\ decoded.bytes = <<65, 66>>

\* C11: an empty payload, a payload that is not standard base64 and a payload
\* that starts with "data:" and has no ";base64," each fail with
\* DomainError::Validation, status 400, never 500 or 404, and the three
\* failures carry pairwise different reasons.
C11_DecoderRejection ==
    Decoded =>
        /\ ~decoded.ok => /\ resp.status = 400
                          /\ decoded.bytes = <<>>
                          /\ decoded.ext = ""
        /\ decoded.ok => resp = NoResp
        /\ (parts.form = "bare" /\ Trim(parts.body) = <<>>) =>
              /\ decoded.err = "imagen vacia"
              /\ resp = ErrResp(400, "validation: imagen vacia")
        /\ (parts.form = "data" /\ Trim(parts.body) = <<>>) =>
              decoded.err = "imagen vacia"
        /\ (parts.form \in {"bare", "data"} /\ Trim(parts.body) \in BadBodies \ {<<>>}) =>
              /\ decoded.err = "base64 invalido"
              /\ resp = ErrResp(400, "validation: base64 invalido: <DecodeError>")
        /\ parts.form = "nomarker" =>
              /\ decoded.err = "formato base64 invalido"
              /\ resp.status = 400
              /\ resp.error \notin { "validation: imagen vacia",
                                     "validation: base64 invalido: <DecodeError>" }

C11_DataUrlWithoutMarkerRejected ==
    /\ Decoded
    /\ parts.form = "nomarker"
    /\ parts.body = <<"Q", "Q", "=", "=">>
    /\ bareDecoded.ok
    /\ ~decoded.ok
    /\ resp.status = 400

\* a gated request whose image_base64 is present and empty has been answered
BlankImageAnswered ==
    /\ pc = "done"
    /\ req.handler \in HandlerNames
    /\ auth.ok
    /\ req.body = "blank"

ImageHandlers ==
    { "create_pose", "create_post", "create_evento", "update_evento", "create_place",
      "update_place", "create_theme_of_the_day", "update_theme_of_the_day",
      "add_portfolio_image", "update_profile_avatar" }

\* C12 as stated: every create-with-image and update-with-image handler rejects
\* an empty image_base64 with a validation failure before any file write or
\* database call.
C12_BlankImageAlwaysRejected ==
    (BlankImageAnswered /\ req.handler \in ImageHandlers) =>
        /\ resp.status = 400
        /\ dbLog = {}
        /\ fsLog = {}

\* C12: create_pose, create_post, create_evento, create_place,
\* add_portfolio_image and update_profile_avatar reject an empty image_base64
\* with "image_base64 es requerido" before any decode, lookup, file write or
\* database call; create_theme_of_the_day and update_theme_of_the_day reject it
\* in the decoder with "imagen vacia", before any file write or database call;
\* update_evento and update_place do not reject it: they write no file and go
\* on to the database update as if no image had been sent.
C12_BlankImageByHandler ==
    (BlankImageAnswered /\ req.handler \in ImageHandlers) =>
        /\ fsLog = {}
        /\ req.handler \in { "create_pose", "create_post", "create_evento", "create_place",
                             "add_portfolio_image", "update_profile_avatar" } =>
              /\ resp = ErrResp(400, "validation: image_base64 es requerido")
              /\ dbLog = {}
              /\ ~lookup.called
        /\ req.handler \in {"create_theme_of_the_day", "update_theme_of_the_day"} =>
              /\ resp = ErrResp(400, "validation: imagen vacia")
              /\ dbLog = {}
        /\ req.handler \in {"update_evento", "update_place"} =>
              /\ resp.error \notin { "validation: image_base64 es requerido",
                                     "validation: imagen vacia" }
              /\ resp.status \in {200, 400, 404, 500}
              /\ resp.status = 200 => dbLog # {}

C12_BlankImageUpdatesEvento ==
    /\ BlankImageAnswered
    /\ req.handler = "update_evento"
    /\ resp.status = 200
    /\ dbLog = {"eventos"}
    /\ fsLog = {}

(***************************************************************************)
(* The handlers that store an asset, over the directory and the table of   *)
(* one resource class (SpecAssets).  Each action is one request run to its *)
(* response: the blank check, the save, the use case and, for the          *)
(* portfolio, the removal of the file after a failed insert.               *)
(***************************************************************************)
HasFile(fs, id) == \E e \in ExtSet : fs[<<id, e>>].exists

\* Uuid::new_v4(): an id no row and no file carries
FreshIds == {i \in AssetIds : ~rows[i].exists /\ ~HasFile(files, i)}

\* the rows before any request: the usuarios the resolver can find, none of
\* them with an avatar; every other table is empty
InitRows(r) == IF r = "profile" THEN [AssetIds -> {Row(NoUrl), NoRow}] ELSE {NoRows}

InitAssets ==
    /\ InitRequest
    /\ usuarios = AllUsers
    /\ resource \in AssetResourceNames
    /\ files = EmptyDir
    /\ rows \in InitRows(resource)
    /\ lastOp = NoOp
    /\ stores = <<>>

\* what a request did and what it was answered; cause is the step whose error
\* the handler returned ("" when it returned Ok), hadRow whether the id had a
\* row when the request arrived, wrote whether the directory is not as the
\* request found it
Op(op, id, image, r, url, saved, out, undo, cause) ==
    [op |-> op, id |-> id, image |-> image, status |-> r.status, error |-> r.error,
     url |-> url, saved |-> saved, ext |-> out.ext, bytes |-> out.bytes, ctype |-> "",
     undo |-> undo, cause |-> cause, hadRow |-> id \in DOMAIN rows /\ rows[id].exists,
     wrote |-> files' # files]

NoSave == SaveResult(FALSE, NoResp, files, NotDecoded, NoUrl)

\* sqlx INSERT through the use case: the row is written, or the use case
\* refuses another field of the body, or the database fails (always when the
\* key is taken: no INSERT of these tables has ON CONFLICT)
InsertOutcomes(r, id) ==
    (IF rows[id].exists THEN {} ELSE {"ok"})
        \cup (IF AssetResources[r].validates THEN {"validation"} ELSE {})
        \cup {"repository"}

InsertResponse(o) ==
    CASE o = "ok" -> OkResp(200)
      [] o = "validation" -> ApiErrorResponse("Validation", "validation: <campo>")
      [] OTHER -> ApiErrorResponse("Repository", "")

\* does the create handler remove the files of the id after insert outcome o?
Undoes_after_any_insert(r, o) == AssetResources[r].undo

Undoes(r, o) == AssetResources[r].undo /\ o # "ok"

\* for ext in ["png", "jpg", "jpeg"] { let _ = std::fs::remove_file(&path); }
\* each call on a file that exists removes it or fails
RemoveFiles(fs, id) ==
    {[k \in DOMAIN fs |-> IF k[1] = id /\ k[2] \in gone THEN NoFile ELSE fs[k]] :
        gone \in SUBSET {e \in ExtSet : fs[<<id, e>>].exists}}

\* did every remove_file of a file that existed succeed?
UndoOf(fs, id) == IF HasFile(fs, id) THEN "failed" ELSE "removed"

\* Err(e) => { ...; Err(ApiError(e)) }: the error returned after the removal
\* is the one of the insert; the results of remove_file are dropped
UndoCause_remove_error(o, undo) == IF undo = "failed" THEN "remove_file" ELSE o

UndoCause(o, undo) == o

\* create_pose, create_post, create_evento, create_place,
\* create_theme_of_the_day, add_portfolio_image
CreateWithImage(id, image) ==
    LET R == AssetResources[resource]
        blank == ApiErrorResponse("Validation", "validation: image_base64 es requerido")
    IN  /\ R.create # "none"
        /\ R.create = "fresh" => id \in FreshIds
        /\ IF R.blankCheck /\ Trim(image) = <<>>
           THEN /\ UNCHANGED <<files, rows>>
                /\ lastOp' = Op("create", 0, image, blank, NoUrl, FALSE, NoSave, "", "blank")
           ELSE \E out \in save_image_base64(resource, files, id, image) :
                  IF ~out.ok
                  THEN /\ files' = out.files
                       /\ lastOp' = Op("create", id, image, out.resp, NoUrl, FALSE, out, "",
                                       "save")
                       /\ UNCHANGED rows
                  ELSE \E o \in InsertOutcomes(resource, id) :
                         /\ files' \in (IF Undoes(resource, o)
                                        THEN RemoveFiles(out.files, id)
                                        ELSE {out.files})
                         /\ rows' = IF o = "ok" THEN [rows EXCEPT ![id] = Row(out.url)]
                                    ELSE rows
                         /\ LET undo == IF Undoes(resource, o) THEN UndoOf(files', id) ELSE ""
                            IN  lastOp' = Op("create", id, image, InsertResponse(o),
                                             IF o = "ok" THEN out.url ELSE NoUrl, TRUE, out,
                                             undo,
                                             IF o = "ok" THEN "" ELSE UndoCause(o, undo))
    /\ UNCHANGED <<resource, stores>>
    /\ UNCHANGED <<clockVars, usuarios, pipelineVars, prevRejection, codecVars, decoderVars, moreVars>>

\* UPDATE ... SET url = COALESCE($n, url) WHERE id = $1 RETURNING ..., with
\* fetch_optional: the row with its new URL, no row, or a database failure
UpdateOutcomes(id) == (IF rows[id].exists THEN {"ok"} ELSE {"not_found"}) \cup {"repository"}

UpdateResponse(o) ==
    CASE o = "ok" -> OkResp(200)
      [] o = "not_found" -> ApiErrorResponse("NotFound", "not found: <id>")
      [] OTHER -> ApiErrorResponse("Repository", "")

\* does the update handler call the save function for this body?
Saves_when_given(update, given, image) == given

Saves(update, given, image) ==
    CASE update = "skip_blank" -> given /\ Trim(image) # <<>>
      [] update = "always" -> given
      [] OTHER -> TRUE

\* update_evento, update_place, update_theme_of_the_day and, with the id the
\* resolver found for the caller, update_profile_avatar
UpdateWithImage(id, given, image) ==
    LET R == AssetResources[resource]
        blank == ApiErrorResponse("Validation", "validation: image_base64 es requerido")
        unknown == ApiErrorResponse("NotFound", "not found: Usuario no encontrado")
    IN  /\ R.update # "none"
        /\ R.update = "avatar" => given
        /\ IF R.update = "avatar" /\ Trim(image) = <<>>
           THEN /\ UNCHANGED <<files, rows>>
                /\ lastOp' = Op("update", 0, image, blank, NoUrl, FALSE, NoSave, "", "blank")
           ELSE IF R.update = "avatar" /\ ~rows[id].exists
           THEN /\ UNCHANGED <<files, rows>>
                /\ lastOp' = Op("update", id, image, unknown, NoUrl, FALSE, NoSave, "",
                                "resolve")
           ELSE \E out \in (IF Saves(R.update, given, image)
                            THEN save_image_base64(resource, files, id, image)
                            ELSE {NoSave}) :
                  IF Saves(R.update, given, image) /\ ~out.ok
                  THEN /\ files' = out.files
                       /\ lastOp' = Op("update", id, image, out.resp, NoUrl, FALSE, out, "",
                                       "save")
                       /\ UNCHANGED rows
                  ELSE \E o \in UpdateOutcomes(id) :
                         /\ files' = out.files
                         /\ rows' = IF o = "ok" /\ out.ok
                                    THEN [rows EXCEPT ![id] = Row(out.url)]
                                    ELSE rows
                         /\ lastOp' = Op("update", id, image, UpdateResponse(o),
                                         IF o = "ok" THEN rows'[id].url ELSE NoUrl,
                                         out.ok, out, "", IF o = "ok" THEN "" ELSE o)
    /\ UNCHANGED <<resource, stores>>
    /\ UNCHANGED <<clockVars, usuarios, pipelineVars, prevRejection, codecVars, decoderVars, moreVars>>

\* delete_pose, delete_post, delete_evento, delete_place,
\* delete_theme_of_the_day, delete_portfolio_image: DELETE FROM ... WHERE
\* id = $1 and nothing else
DeleteRow(id) ==
    /\ AssetResources[resource].delete
    /\ UNCHANGED files
    /\ \E o \in {"ok", "repository"} :
         /\ rows' = IF o = "ok" THEN [rows EXCEPT ![id] = NoRow] ELSE rows
         /\ lastOp' = Op("delete", id, <<>>,
                         IF o = "ok" THEN OkResp(204) ELSE ApiErrorResponse("Repository", ""),
                         NoUrl, FALSE, NoSave, "", IF o = "ok" THEN "" ELSE o)
    /\ UNCHANGED <<resource, stores>>
    /\ UNCHANGED <<clockVars, usuarios, pipelineVars, prevRejection, codecVars, decoderVars, moreVars>>

\* GET on the URL a create or update handler stored in the row of id
GetStoredUrl(id) ==
    /\ rows[id].exists
    /\ rows[id].url # NoUrl
    /\ \E out \in RouteGet(resource, files, id) :
         lastOp' = [op |-> "get", id |-> id, image |-> <<>>, status |-> out.status,
                    error |-> out.error, url |-> rows[id].url, saved |-> FALSE,
                    ext |-> out.ext, bytes |-> out.bytes, ctype |-> out.ctype,
                    undo |-> "", cause |-> "", hadRow |-> FALSE,
     wrote |-> FALSE]
    /\ UNCHANGED <<resource, files, rows, stores>>
    /\ UNCHANGED <<clockVars, usuarios, pipelineVars, prevRejection, codecVars, decoderVars,
                   moreVars>>

CreateAny == pc = "idle" /\ \E id \in AssetIds, image \in AssetImages : CreateWithImage(id, image)
UpdateAny ==
    /\ pc = "idle"
    /\ \E id \in AssetIds, given \in BOOLEAN, image \in AssetImages :
         (~given => image = <<>>) /\ UpdateWithImage(id, given, image)
DeleteAny == pc = "idle" /\ \E id \in AssetIds : DeleteRow(id)
GetAny == pc = "idle" /\ \E id \in AssetIds : GetStoredUrl(id)

NextAssets == CreateAny \/ UpdateAny \/ DeleteAny \/ GetAny

SpecAssets == InitAssets /\ [][NextAssets]_vars

(***************************************************************************)
(* Properties of the asset handlers (SpecAssets).                          *)
(***************************************************************************)
\* the last request was a create or an update whose save and whose write of
\* the row both succeeded
StoredByHandler ==
    /\ lastOp.op \in {"create", "update"}
    /\ lastOp.status = 200
    /\ lastOp.saved

\* C13: when a create or update handler has saved an image and written its
\* row, the file {id}.{ext} of the resource's directory holds exactly the
\* bytes and carries the extension the decoder gave for the image sent, the
\* row with the same id holds the URL the handler returned, and that URL is
\* /api/{resource}/{id}/image whatever the image type ("/api/profile/avatar"
\* for the avatar handler).
C13_SaveWritesFileAndUrl ==
    StoredByHandler =>
        /\ lastOp.bytes = save_pose_image_base64(lastOp.image).bytes
        /\ lastOp.ext = save_pose_image_base64(lastOp.image).ext
        /\ files[<<lastOp.id, lastOp.ext>>] = File(lastOp.bytes)
        /\ rows[lastOp.id] = Row(lastOp.url)
        /\ lastOp.url.prefix = AssetResources[resource].prefix
        /\ IF resource = "profile"
           THEN lastOp.url.id = 0 /\ lastOp.url.suffix = ""
           ELSE lastOp.url.id = lastOp.id /\ lastOp.url.suffix = "/image"

C13_AvatarStored ==
    /\ StoredByHandler
    /\ resource = "profile"
    /\ lastOp.image = JpgImage
    /\ files[<<lastOp.id, "jpg">>] = File(<<65, 66>>)
    /\ rows[lastOp.id].url.prefix = "/api/profile/avatar"

(***************************************************************************)
(* The save function and the serve handler alone, over a directory that    *)
(* may hold files from before (SpecServe): a client stores images under an *)
(* id and asks for the image of an id.                                     *)
(***************************************************************************)
\* a file left in the directory by an earlier run
LegacyFile == File(<<66>>)
LegacyDirs == {EmptyDir} \cup {[EmptyDir EXCEPT ![k] = LegacyFile] : k \in DOMAIN EmptyDir}

InitServe ==
    /\ InitRequest
    /\ usuarios = AllUsers
    /\ resource \in {"poses", "theme_of_the_day"}
    /\ files \in LegacyDirs
    /\ rows = NoRows
    /\ lastOp = NoOp
    /\ stores = <<>>

\* save_pose_image_base64(base_dir, id, image_base64)
StoreImage(id, image) ==
    /\ Len(stores) < MaxStores
    /\ \E out \in save_image_base64(resource, files, id, image) :
         /\ files' = out.files
         /\ stores' = Append(stores, [id |-> id, ok |-> out.ok, ext |-> out.ext,
                                      bytes |-> out.bytes, clean |-> ~HasFile(files, id)])
         /\ lastOp' = Op("store", id, image, IF out.ok THEN OkResp(200) ELSE out.resp,
                         out.url, out.ok, out, "", IF out.ok THEN "" ELSE "save")
    /\ UNCHANGED <<resource, rows>>
    /\ UNCHANGED <<clockVars, usuarios, pipelineVars, prevRejection, codecVars, decoderVars, moreVars>>

\* get_pose_image(State(state), Path(id))
ServeImage(id) ==
    /\ \E out \in get_pose_image(files, id) :
         lastOp' = [op |-> "serve", id |-> id, image |-> <<>>, status |-> out.status,
                    error |-> out.error, url |-> NoUrl, saved |-> FALSE, ext |-> out.ext,
                    bytes |-> out.bytes, ctype |-> out.ctype, undo |-> "", cause |-> "", hadRow |-> FALSE,
     wrote |-> FALSE]
    /\ UNCHANGED <<resource, files, rows, stores>>
    /\ UNCHANGED <<clockVars, usuarios, pipelineVars, prevRejection, codecVars, decoderVars, moreVars>>

StoreAny == pc = "idle" /\ \E id \in AssetIds, image \in AssetImages : StoreImage(id, image)
ServeAny == pc = "idle" /\ \E id \in AssetIds : ServeImage(id)

NextServe == StoreAny \/ ServeAny

SpecServe == InitServe /\ [][NextServe]_vars

\* the calls of the save function for the id just served, in order
StoresOfServed == SelectSeq(stores, LAMBDA s : s.id = lastOp.id)

\* the serve handler answered and could read the file it found
Served == lastOp.op = "serve" /\ lastOp.status # 500

ContentTypeOf(ext) == IF ext = "png" THEN "image/png" ELSE "image/jpeg"

\* C14: for an id with no file yet, one successful store followed by a serve
\* that can read the file returns the stored bytes, as image/png when the
\* image was a PNG data URL and as image/jpeg otherwise.
C14_StoreServeRoundTrip ==
    (/\ Served
     /\ Len(StoresOfServed) = 1
     /\ StoresOfServed[1].ok
     /\ StoresOfServed[1].clean)
        => /\ lastOp.status = 200
           /\ lastOp.bytes = StoresOfServed[1].bytes
           /\ lastOp.ctype = ContentTypeOf(StoresOfServed[1].ext)

C14_JpgServedAfterStore ==
    /\ Served
    /\ Len(StoresOfServed) = 1
    /\ StoresOfServed[1] = [id |-> lastOp.id, ok |-> TRUE, ext |-> "jpg",
                            bytes |-> <<65, 66>>, clean |-> TRUE]
    /\ lastOp.bytes = <<65, 66>>
    /\ lastOp.ctype = "image/jpeg"

\* C15: for an id with no file yet, a successful store of a PNG followed by a
\* successful store of a JPEG under the same id and then a serve returns the
\* second image's bytes as image/jpeg, with the .png file still on disk.
C15_LatestStoreServed ==
    (/\ Served
     /\ Len(StoresOfServed) = 2
     /\ StoresOfServed[1].ok /\ StoresOfServed[1].clean /\ StoresOfServed[1].ext = "png"
     /\ StoresOfServed[2].ok /\ StoresOfServed[2].ext = "jpg")
        => /\ lastOp.status = 200
           /\ lastOp.bytes = StoresOfServed[2].bytes
           /\ lastOp.ctype = "image/jpeg"
           /\ files[<<lastOp.id, "png">>].exists

\* C16: the serve handler answers 404 exactly when the id has none of the
\* files .png, .jpg, .jpeg; otherwise it takes the first of them that exists
\* in that order and, if it can read it, returns its bytes as image/png for
\* .png and as image/jpeg for the other two.
C16_ServeProbeOrder ==
    lastOp.op = "serve" =>
        LET has(e) == files[<<lastOp.id, e>>].exists
            first == IF has("png") THEN "png" ELSE IF has("jpg") THEN "jpg" ELSE "jpeg"
        IN  /\ lastOp.status \in {200, 404, 500}
            /\ lastOp.status = 404 <=> ~HasFile(files, lastOp.id)
            /\ lastOp.status # 404 => lastOp.ext = first
            /\ lastOp.status = 200 =>
                   /\ lastOp.bytes = files[<<lastOp.id, first>>].bytes
                   /\ lastOp.ctype = (IF first = "png" THEN "image/png" ELSE "image/jpeg")

C16_LegacyJpegServed ==
    /\ lastOp.op = "serve"
    /\ lastOp.status = 200
    /\ lastOp.ext = "jpeg"
    /\ lastOp.ctype = "image/jpeg"
    /\ ~files[<<lastOp.id, "png">>].exists
    /\ ~files[<<lastOp.id, "jpg">>].exists

(***************************************************************************)
(* Files against rows (SpecAssets).                                        *)
(***************************************************************************)
\* the row carries a URL written by a create or update-with-image handler
HasImageUrl(id) == rows[id].exists /\ rows[id].url # NoUrl

\* C17: in every reachable state each id has at most one of the files
\* {id}.png, {id}.jpg, {id}.jpeg in the resource's directory, also after an
\* update that changes the image type.
C17_AtMostOneFilePerId ==
    \A id \in AssetIds : Cardinality({e \in ExtSet : files[<<id, e>>].exists}) <= 1

\* C18: in every reachable state, every row whose url was set by a create or
\* update-with-image handler has a file {id}.png, {id}.jpg or {id}.jpeg in
\* the resource's directory, whatever steps of earlier requests failed.
C18_RowHasFile ==
    \A id \in AssetIds : HasImageUrl(id) => HasFile(files, id)

C18_RowKeepsFileAfterFailedUpdate ==
    /\ lastOp.op = "update"
    /\ lastOp.cause = "save"
    /\ lastOp.status = 500
    /\ HasImageUrl(lastOp.id)
    /\ HasFile(files, lastOp.id)

\* C19: in every reachable state (each request has run to its response),
\* every file {id}.{ext} of the resource's directory has a row with that id:
\* no file is left by a successful delete or by an update-with-image of an id
\* that has no row.
C19_FileHasRow ==
    \A id \in AssetIds : HasFile(files, id) => rows[id].exists

\* add_portfolio_image stored the file and the insert then failed
InsertFailedAfterStore ==
    /\ resource = "portfolio"
    /\ lastOp.op = "create"
    /\ lastOp.saved
    /\ lastOp.status # 200

\* C20: when add_portfolio_image has stored the file and the insert fails,
\* the handler returns the error of the insert (a repository error, 500) and
\* writes no row, whether or not a remove_file call fails; the file of the
\* new id is gone when the remove_file call for it succeeded, and is still on
\* disk with the stored bytes when that call failed.
C20_UndoKeepsInsertError ==
    InsertFailedAfterStore =>
        /\ lastOp.cause = "repository"
        /\ lastOp.status = 500
        /\ ~rows[lastOp.id].exists
        /\ lastOp.undo \in {"removed", "failed"}
        /\ lastOp.undo = "removed" => ~HasFile(files, lastOp.id)
        /\ lastOp.undo = "failed" => files[<<lastOp.id, lastOp.ext>>] = File(lastOp.bytes)

C20_FileRemovedAfterFailedInsert ==
    /\ InsertFailedAfterStore
    /\ lastOp.undo = "removed"
    /\ lastOp.cause = "repository"
    /\ ~HasFile(files, lastOp.id)

\* C20 as stated: after the failed insert no file of the new id exists and
\* the error returned is the one of the insert, also when remove_file fails.
C20_NoFileAfterFailedInsert ==
    InsertFailedAfterStore =>
        /\ ~HasFile(files, lastOp.id)
        /\ lastOp.cause = "repository"

\* a create handler stored the file and the use case behind it then failed
CreateFailedAfterStore ==
    /\ lastOp.op = "create"
    /\ lastOp.saved
    /\ lastOp.cause # ""

\* C21: every create handler that has stored the file and whose insert, or
\* the validation of the use case in front of it, then fails runs the removal
\* of {id}.png, {id}.jpg and {id}.jpeg before it returns the error.
C21_EveryCreateUndoes ==
    CreateFailedAfterStore => lastOp.undo \in {"removed", "failed"}

(***************************************************************************)
(* Two overlapping uploads to one id (SpecRace).  The handlers are async   *)
(* functions on a multi-threaded runtime and std::fs::write is a call of   *)
(* open with create and truncate followed by write_all, so the steps of two *)
(* requests interleave: open, each write, the update of the row.           *)
(***************************************************************************)
RaceImages == {PngImage, JpgImage, JpgImage2}

Uploaders == {1, 2}

Upload(id, image) ==
    [id |-> id, image |-> image, ext |-> Decoding[image].ext,
     bytes |-> Decoding[image].bytes, phase |-> "decoded", off |-> 0, stamp |-> 0]

InitRace ==
    /\ InitRequest
    /\ usuarios = AllUsers
    /\ resource = "profile"
    /\ files = EmptyDir
    /\ rows = [i \in AssetIds |-> Row(NoUrl)]
    /\ lastOp = NoOp
    /\ stores = <<>>

\* two update_profile_avatar requests of one user arrive; each has passed the
\* blank check, the resolver and the decoding
BeginUploads(id, image1, image2) ==
    /\ uploads = <<>>
    /\ uploads' = <<Upload(id, image1), Upload(id, image2)>>
    /\ UNCHANGED <<clockVars, usuarios, pipelineVars, prevRejection, codecVars, decoderVars,
                   assetVars, favVars,
                   tagVars, sesionVars, pageVars, loginVars>>

\* File::create(path) inside std::fs::write: the file is created or truncated
OpenFile(p) ==
    /\ uploads # <<>>
    /\ uploads[p].phase = "decoded"
    /\ files' = [files EXCEPT ![<<uploads[p].id, uploads[p].ext>>] = File(<<>>)]
    /\ uploads' = [uploads EXCEPT ![p].phase = "opened"]
    /\ UNCHANGED <<resource, rows, lastOp, stores>>
    /\ UNCHANGED <<clockVars, usuarios, pipelineVars, prevRejection, codecVars, decoderVars,
                   favVars, tagVars, sesionVars, pageVars, loginVars>>

\* the content of a file after chunk is written at offset off: a hole left by
\* a truncation in between reads as zero bytes
WriteAt_append(content, off, chunk) == content \o chunk

WriteAt(content, off, chunk) ==
    [i \in 1..(IF Len(content) > off + Len(chunk) THEN Len(content) ELSE off + Len(chunk)) |->
        IF i > off /\ i <= off + Len(chunk) THEN chunk[i - off]
        ELSE IF i <= Len(content) THEN content[i] ELSE 0]

NextStamp == 1 + (IF uploads[1].stamp > uploads[2].stamp THEN uploads[1].stamp
                  ELSE uploads[2].stamp)

\* one write call of write_all: k of the bytes still to write go to the file
\* at this handle's offset
WriteBytes(p, k) ==
    /\ uploads # <<>>
    /\ uploads[p].phase = "opened"
    /\ k \in 1..(Len(uploads[p].bytes) - uploads[p].off)
    /\ LET u == uploads[p]
           key == <<u.id, u.ext>>
           chunk == SubSeq(u.bytes, u.off + 1, u.off + k)
       IN  /\ files' = [files EXCEPT ![key] = File(WriteAt(files[key].bytes, u.off, chunk))]
           /\ uploads' = [uploads EXCEPT ![p].off = u.off + k,
                                         ![p].stamp = NextStamp,
                                         ![p].phase = IF u.off + k = Len(u.bytes)
                                                      THEN "written" ELSE "opened"]
    /\ UNCHANGED <<resource, rows, lastOp, stores>>
    /\ UNCHANGED <<clockVars, usuarios, pipelineVars, prevRejection, codecVars, decoderVars,
                   favVars, tagVars, sesionVars, pageVars, loginVars>>

\* uc.execute(user_id, "/api/profile/avatar") and the response
FinishUpload(p) ==
    /\ uploads # <<>>
    /\ uploads[p].phase = "written"
    /\ rows' = [rows EXCEPT ![uploads[p].id] = Row(ImageUrl(resource, uploads[p].id, ""))]
    /\ uploads' = [uploads EXCEPT ![p].phase = "done"]
    /\ UNCHANGED <<resource, files, lastOp, stores>>
    /\ UNCHANGED <<clockVars, usuarios, pipelineVars, prevRejection, codecVars, decoderVars,
                   favVars, tagVars, sesionVars, pageVars, loginVars>>

BothDone == uploads # <<>> /\ \A p \in Uploaders : uploads[p].phase = "done"

\* get_profile_avatar of the same user after both requests were answered
ServeUploaded ==
    /\ BothDone
    /\ \E out \in get_pose_image(files, uploads[1].id) :
         lastOp' = [op |-> "serve", id |-> uploads[1].id, image |-> <<>>,
                    status |-> out.status, error |-> out.error, url |-> NoUrl,
                    saved |-> FALSE, ext |-> out.ext, bytes |-> out.bytes,
                    ctype |-> out.ctype, undo |-> "", cause |-> "", hadRow |-> FALSE,
     wrote |-> FALSE]
    /\ UNCHANGED <<resource, files, rows, stores>>
    /\ UNCHANGED <<clockVars, usuarios, pipelineVars, prevRejection, codecVars, decoderVars,
                   moreVars>>

BeginAny ==
    /\ pc = "idle"
    /\ \E id \in AssetIds, image1 \in RaceImages, image2 \in RaceImages :
         BeginUploads(id, image1, image2)
OpenAny == pc = "idle" /\ \E p \in Uploaders : OpenFile(p)
WriteAny == pc = "idle" /\ \E p \in Uploaders, k \in 1..MaxChunk : WriteBytes(p, k)
FinishAny == pc = "idle" /\ \E p \in Uploaders : FinishUpload(p)
ServeUploadedIdle == pc = "idle" /\ ServeUploaded

NextRace == BeginAny \/ OpenAny \/ WriteAny \/ FinishAny \/ ServeUploadedIdle

SpecRace == InitRace /\ [][NextRace]_vars

\* the upload whose write to the file happened last
LastWriter == IF uploads[1].stamp > uploads[2].stamp THEN 1 ELSE 2

\* C22: once two overlapping uploads to one id have both completed, a serve
\* for that id that can read the file returns exactly the bytes of the upload
\* whose file write happened last, in every interleaving.
C22_LastWriteWins ==
    (BothDone /\ lastOp.op = "serve" /\ lastOp.status # 500)
        => /\ lastOp.status = 200
           /\ lastOp.bytes = uploads[LastWriter].bytes

(***************************************************************************)
(* Favorites (SpecFavorites): requests of several users in flight at once; *)
(* each one runs a single SQL statement on table favoritos.                *)
(***************************************************************************)
StatementResult(ok, cause, table) == [ok |-> ok, cause |-> cause, table |-> table]

\* INSERT INTO favoritos (user_id, pose_id) VALUES ($1, $2) without the
\* ON CONFLICT clause: a unique violation when the pair is there
add_pose_to_favorites_plain_insert(table, user_id, pose_id) ==
    IF table[<<user_id, pose_id>>] > 0
    THEN StatementResult(FALSE, "conflict", table)
    ELSE StatementResult(TRUE, "", [table EXCEPT ![<<user_id, pose_id>>] = 1])

\* INSERT INTO favoritos ... ON CONFLICT (pose_id, user_id) DO NOTHING
add_pose_to_favorites(table, user_id, pose_id) ==
    IF table[<<user_id, pose_id>>] > 0
    THEN StatementResult(TRUE, "", table)
    ELSE StatementResult(TRUE, "", [table EXCEPT ![<<user_id, pose_id>>] = 1])

\* DELETE FROM favoritos WHERE user_id = $1 AND pose_id = $2
remove_pose_from_favorites(table, user_id, pose_id) ==
    StatementResult(TRUE, "", [table EXCEPT ![<<user_id, pose_id>>] = 0])

\* AddPoseToFavoritesUseCase::execute(user_id, pose_id): the repository call
AddPoseToFavoritesUseCase_execute(table, user_id, pose_id) ==
    add_pose_to_favorites(table, user_id, pose_id)

\* the statement fails in the pool or the connection: nothing is changed
StatementOutcomes(r, table) == {r, StatementResult(FALSE, "db", table)}

InitFavorites ==
    /\ InitRequest
    /\ usuarios = AllUsers
    /\ resource = ""
    /\ files = EmptyDir
    /\ rows = NoRows
    /\ lastOp = NoOp
    /\ stores = <<>>

\* add_pose_to_favorites / remove_pose_from_favorites up to the use case: the
\* extractors and user_id_from_auth have given the caller's id
ArriveFav(kind, user_id, pose_id) ==
    /\ Len(favReqs) < MaxFavReqs
    /\ favReqs' = Append(favReqs, [kind |-> kind, user |-> user_id, pose |-> pose_id,
                                   phase |-> "pending", status |-> 0, cause |-> "",
                                   before |-> 0, after |-> 0, order |-> 0])
    /\ UNCHANGED <<uploads, favoritos, tagVars, sesionVars, pageVars, loginVars>>
    /\ UNCHANGED <<clockVars, usuarios, pipelineVars, prevRejection, codecVars, decoderVars,
                   assetVars>>

DoneFavs == {i \in DOMAIN favReqs : favReqs[i].phase = "done"}

\* uc.execute(user_id, pose_id).await? and the response
ExecFav(i) ==
    /\ i \in DOMAIN favReqs
    /\ favReqs[i].phase = "pending"
    /\ LET q == favReqs[i]
           r == IF q.kind = "add"
                THEN AddPoseToFavoritesUseCase_execute(favoritos, q.user, q.pose)
                ELSE remove_pose_from_favorites(favoritos, q.user, q.pose)
       IN  \E out \in StatementOutcomes(r, favoritos) :
             /\ favoritos' = out.table
             /\ favReqs' = [favReqs EXCEPT ![i] =
                    [q EXCEPT !.phase = "done",
                              !.status = IF out.ok THEN 204 ELSE 500,
                              !.cause = out.cause,
                              !.before = favoritos[<<q.user, q.pose>>],
                              !.after = out.table[<<q.user, q.pose>>],
                              !.order = Cardinality(DoneFavs) + 1]]
    /\ UNCHANGED <<uploads, tagVars, sesionVars, pageVars, loginVars>>
    /\ UNCHANGED <<clockVars, usuarios, pipelineVars, prevRejection, codecVars, decoderVars,
                   assetVars>>

ArriveFavAny ==
    /\ pc = "idle"
    /\ \E kind \in {"add", "remove"}, u \in FavUsers, p \in FavPoses : ArriveFav(kind, u, p)
ExecFavAny == pc = "idle" /\ \E i \in 1..MaxFavReqs : ExecFav(i)

NextFavorites == ArriveFavAny \/ ExecFavAny

SpecFavorites == InitFavorites /\ [][NextFavorites]_vars

\* the membership after the given requests have run one after the other in
\* some order, from table: an add puts the pair in, a remove takes it out
RECURSIVE SerialResults(_, _)
SerialResults(members, todo) ==
    IF todo = {} THEN {members}
    ELSE UNION {SerialResults(IF favReqs[i].kind = "add"
                              THEN members \cup {<<favReqs[i].user, favReqs[i].pose>>}
                              ELSE members \ {<<favReqs[i].user, favReqs[i].pose>>},
                              todo \ {i}) : i \in todo}

\* C23: a pair has at most one row; an add answered 204 leaves the pair a
\* favorite (also when it already was one), a remove answered 204 leaves it
\* no favorite (also when it was none), a failed request changes nothing and
\* fails only for a database failure, never for a conflict with another
\* request; and when all requests are done the membership is the result of
\* the successful ones run in some serial order.
C23_FavoritesSerializable ==
    /\ \A k \in DOMAIN favoritos : favoritos[k] <= 1
    /\ \A i \in DoneFavs :
         LET q == favReqs[i]
         IN  /\ q.status = 204 \/ (q.status = 500 /\ q.cause = "db")
             /\ q.status = 204 => q.after = (IF q.kind = "add" THEN 1 ELSE 0)
             /\ q.status = 500 => q.after = q.before
    /\ (favReqs # <<>> /\ DoneFavs = DOMAIN favReqs) =>
         {k \in DOMAIN favoritos : favoritos[k] > 0}
             \in SerialResults({}, {i \in DoneFavs : favReqs[i].status = 204})

C23_AddOfFavoriteSucceeds ==
    /\ Len(favReqs) = 2
    /\ DoneFavs = {1, 2}
    /\ favReqs[1].kind = "add" /\ favReqs[2].kind = "add"
    /\ favReqs[1].user = favReqs[2].user /\ favReqs[1].pose = favReqs[2].pose
    /\ favReqs[2].order = 1 /\ favReqs[1].order = 2
    /\ favReqs[1].before = 1 /\ favReqs[1].status = 204
    /\ favoritos[<<favReqs[1].user, favReqs[1].pose>>] = 1

\* C24: a GET on the URL stored by a create or update handler, for every
\* resource class, reaches the serve handler and, if the file can be read,
\* is answered 200 with the bytes of the id's file and Content-Type
\* image/png or image/jpeg.
C24_StoredUrlServesImage ==
    (lastOp.op = "get" /\ lastOp.status # 500) =>
        /\ lastOp.status = 200
        /\ lastOp.ctype \in {"image/png", "image/jpeg"}
        /\ lastOp.bytes = files[<<lastOp.id, lastOp.ext>>].bytes

\* C25: a delete request for an id that has no row is answered 404, and 204
\* only when a row with that id existed and was removed (500 when the
\* database fails).
C25_DeleteOfMissingRowIsNotFound ==
    lastOp.op = "delete" =>
        /\ lastOp.status = 204 => lastOp.hadRow /\ ~rows[lastOp.id].exists
        /\ (~lastOp.hadRow /\ lastOp.status # 500) => lastOp.status = 404

(***************************************************************************)
(* The hashtags of a pose (SpecHashtags): update_pose_hashtags, one        *)
(* request at a time.                                                      *)
(***************************************************************************)
InitHashtags ==
    /\ InitRequest
    /\ usuarios = AllUsers
    /\ resource = ""
    /\ files = EmptyDir
    /\ rows = NoRows
    /\ lastOp = NoOp
    /\ stores = <<>>

\* hashtag_ids.iter().copied().collect::<HashSet<Uuid>>()
ToSet(ids) == {ids[i] : i \in DOMAIN ids}

\* the value of body.hashtag_ids: any list, with or without repetitions
TagLists == UNION {[1..n -> Hashtags] : n \in 0..MaxTags}

\* UpdatePoseHashtagsUseCase::execute behind update_pose_hashtags: the read
\* of the current hashtags fails and the error is returned, or every missing
\* id is added and every id no longer wanted is removed, each call failing
\* or not, its result dropped, and Ok(()) is returned
UpdatePoseHashtags(pose_id, hashtag_ids) ==
    LET current_ids == poseHashtags[pose_id]
        new_ids == ToSet(hashtag_ids)
        adds == new_ids \ current_ids
        removes == current_ids \ new_ids
        op(status, failed) == [pose |-> pose_id, given |-> hashtag_ids, status |-> status,
                               failed |-> failed, before |-> poseHashtags]
    IN  /\ \/ /\ hashOp' = op(500, {})
              /\ UNCHANGED poseHashtags
           \/ \E failed \in SUBSET (adds \cup removes) :
                /\ poseHashtags' = [poseHashtags EXCEPT ![pose_id] =
                       (current_ids \cup (adds \ failed)) \ (removes \ failed)]
                /\ hashOp' = op(204, failed)
        /\ UNCHANGED <<raceVars, favVars, sesionVars, pageVars, loginVars>>
        /\ UNCHANGED <<clockVars, usuarios, pipelineVars, prevRejection, codecVars,
                       decoderVars, assetVars>>

UpdatePoseHashtagsAny ==
    /\ pc = "idle"
    /\ \E pose_id \in FavPoses, hashtag_ids \in TagLists :
         UpdatePoseHashtags(pose_id, hashtag_ids)

NextHashtags == UpdatePoseHashtagsAny

SpecHashtags == InitHashtags /\ [][NextHashtags]_vars

\* C26: whenever update_pose_hashtags is answered 204, the hashtags of the
\* pose are exactly the ids given (repetitions ignored), also when a single
\* add or remove call failed, and the hashtags of every other pose are as
\* before.
C26_HashtagsReplaced ==
    hashOp.status = 204 =>
        /\ poseHashtags[hashOp.pose] = ToSet(hashOp.given)
        /\ \A p \in FavPoses \ {hashOp.pose} : poseHashtags[p] = hashOp.before[p]

(***************************************************************************)
(* Login and the registered emails (Spec): two answers of login compared.  *)
(***************************************************************************)
\* login has answered bad credentials, and so it did to an earlier request
TwoBadCredentials ==
    /\ pc = "done"
    /\ req.handler = "login"
    /\ LoginCause(lookup, req.password) \in {"unknown email", "wrong password"}
    /\ prevLogin.cause \in {"unknown email", "wrong password"}

\* C27: the answer of login to an unknown email and its answer to a known
\* email with a wrong password are the same response: status 401, the same
\* error body and no token, whichever of the two requests came first.
C27_LoginHidesRegistration ==
    TwoBadCredentials =>
        /\ resp = prevLogin.resp
        /\ resp.status = 401
        /\ resp.token = NoToken

C27_UnknownAfterWrongPassword ==
    /\ TwoBadCredentials
    /\ LoginCause(lookup, req.password) = "unknown email"
    /\ prevLogin.cause = "wrong password"
    /\ prevLogin.resp.status = 401

\* a create or an update was rejected with 400, 404 or 500
RejectedWrite ==
    /\ lastOp.op \in {"create", "update"}
    /\ lastOp.status \in {400, 404, 500}

\* C28: a create or update request answered 400, 404 or 500 leaves the
\* directory of its resource as it found it: no new file and no other bytes
\* in a file that was there; so for create_theme_of_the_day refused for its
\* id or its taken key and for the updates of an id that has no row.
C28_RejectedRequestWritesNothing ==
    RejectedWrite => ~lastOp.wrote

(***************************************************************************)
(* Favorites moved into a sesion (SpecSesion): one call of                 *)
(* AddFavoritesToSesionUseCase or CreateSesionFromFavoritesUseCase, one    *)
(* SQL statement per step, while other requests add and remove favorites.  *)
(***************************************************************************)
InitSesion ==
    /\ InitRequest
    /\ usuarios = AllUsers
    /\ resource = ""
    /\ files = EmptyDir
    /\ rows = NoRows
    /\ lastOp = NoOp
    /\ stores = <<>>

\* get_favorite_poses(user_id) mapped to the ids
FavoritePoseIds(table, user_id) == {p \in FavPoses : table[<<user_id, p>>] > 0}

\* DELETE FROM favoritos WHERE pose_id = ANY($2), for every user
remove_poses_from_favorites_any_user(table, user_id, pose_ids) ==
    StatementResult(TRUE, "",
        [k \in DOMAIN table |-> IF k[2] \in pose_ids THEN 0 ELSE table[k]])

\* DELETE FROM favoritos WHERE user_id = $1 AND pose_id = ANY($2); no
\* statement when pose_ids is empty
remove_poses_from_favorites(table, user_id, pose_ids) ==
    StatementResult(TRUE, "",
        [k \in DOMAIN table |-> IF k[1] = user_id /\ k[2] \in pose_ids THEN 0 ELSE table[k]])

Finished(status, cause) ==
    [moveOp EXCEPT !.phase = "done", !.status = status, !.cause = cause]

\* the use case up to the list of favorites: sesiones_repo.create for the
\* create kind, then get_favorite_poses; with no favorite it returns Ok
BeginMove(kind, user_id, sesion_id) ==
    LET pose_ids == FavoritePoseIds(favoritos, user_id)
        ok == IF kind = "create" THEN 200 ELSE 204
        begun == [NoMove EXCEPT !.kind = kind, !.user = user_id, !.sesion = sesion_id]
    IN  /\ moveOp.phase \in {"", "done"}
        /\ kind = "create" => sesionPoses[sesion_id] = {}
        /\ \/ /\ kind = "create"
              /\ moveOp' = [begun EXCEPT !.phase = "done", !.status = 500, !.cause = "create"]
           \/ moveOp' = [begun EXCEPT !.phase = "done", !.status = 500, !.cause = "read"]
           \/ moveOp' = IF pose_ids = {}
                         THEN [begun EXCEPT !.phase = "done", !.status = ok]
                         ELSE [begun EXCEPT !.phase = "adding", !.snapshot = pose_ids,
                                            !.todo = pose_ids]
        /\ UNCHANGED <<favoritos, sesionPoses>>
        /\ UNCHANGED <<uploads, favReqs, tagVars, pageVars, loginVars>>
        /\ UNCHANGED <<clockVars, usuarios, pipelineVars, prevRejection, codecVars,
                       decoderVars, assetVars>>

\* one round of the loop of add_poses_to_sesion: INSERT INTO sesion_image
\* ... ON CONFLICT (sesion_id, pose_id) DO NOTHING, or its error returned
AddPoseToSesion(pose_id) ==
    /\ moveOp.phase = "adding"
    /\ pose_id \in moveOp.todo
    /\ \/ /\ sesionPoses' = [sesionPoses EXCEPT ![moveOp.sesion] = @ \cup {pose_id}]
          /\ moveOp' = [moveOp EXCEPT !.todo = @ \ {pose_id}, !.added = @ \cup {pose_id}]
       \/ /\ moveOp' = Finished(500, "add")
          /\ UNCHANGED sesionPoses
    /\ UNCHANGED <<favoritos, uploads, favReqs, tagVars, pageVars, loginVars>>
    /\ UNCHANGED <<clockVars, usuarios, pipelineVars, prevRejection, codecVars, decoderVars,
                   assetVars>>

\* remove_poses_from_favorites(user_id, &pose_ids) after the loop, with the
\* ids read at the start
RemoveMoved ==
    /\ moveOp.phase = "adding"
    /\ moveOp.todo = {}
    /\ \E r \in StatementOutcomes(
                remove_poses_from_favorites(favoritos, moveOp.user, moveOp.snapshot),
                favoritos) :
         /\ favoritos' = r.table
         /\ moveOp' = [Finished(IF ~r.ok THEN 500
                                 ELSE IF moveOp.kind = "create" THEN 200 ELSE 204,
                                 IF r.ok THEN "" ELSE "remove")
                          EXCEPT !.removed = {k \in DOMAIN favoritos :
                                                favoritos[k] > 0 /\ r.table[k] = 0}]
    /\ UNCHANGED <<sesionPoses, uploads, favReqs, tagVars, pageVars, loginVars>>
    /\ UNCHANGED <<clockVars, usuarios, pipelineVars, prevRejection, codecVars, decoderVars,
                   assetVars>>

\* another request of some user adds or removes a favorite meanwhile
OtherFavorite(kind, user_id, pose_id) ==
    /\ favoritos' = IF kind = "add"
                    THEN AddPoseToFavoritesUseCase_execute(favoritos, user_id, pose_id).table
                    ELSE remove_pose_from_favorites(favoritos, user_id, pose_id).table
    /\ favoritos' # favoritos
    /\ UNCHANGED <<moveOp, sesionPoses, uploads, favReqs, tagVars, pageVars, loginVars>>
    /\ UNCHANGED <<clockVars, usuarios, pipelineVars, prevRejection, codecVars, decoderVars,
                   assetVars>>

BeginMoveAny ==
    /\ pc = "idle"
    /\ \E kind \in {"add", "create"}, user_id \in FavUsers, sesion_id \in Sesiones :
         BeginMove(kind, user_id, sesion_id)
AddPoseToSesionAny == pc = "idle" /\ \E pose_id \in FavPoses : AddPoseToSesion(pose_id)
RemoveMovedIdle == pc = "idle" /\ RemoveMoved
OtherFavoriteAny ==
    /\ pc = "idle"
    /\ \E kind \in {"add", "remove"}, user_id \in FavUsers, pose_id \in FavPoses :
         OtherFavorite(kind, user_id, pose_id)

NextSesion == BeginMoveAny \/ AddPoseToSesionAny \/ RemoveMovedIdle \/ OtherFavoriteAny

SpecSesion == InitSesion /\ [][NextSesion]_vars

\* C29: whatever step fails and whatever favorites the same user adds or
\* removes meanwhile, a call that moves favorites into a sesion removes from
\* favoritos only pairs of its own user whose pose it has added to (or found
\* in) the target sesion, removes nothing when add_poses_to_sesion failed or
\* before the loop has ended, and leaves the favorites of other users alone.
C29_OnlyMovedFavoritesRemoved ==
    /\ \A k \in moveOp.removed :
          /\ k[1] = moveOp.user
          /\ k[2] \in moveOp.added
          /\ k[2] \in sesionPoses[moveOp.sesion]
    /\ moveOp.cause \in {"create", "read", "add"} => moveOp.removed = {}
    /\ moveOp.phase = "adding" => moveOp.removed = {}
    /\ moveOp.removed # {} => moveOp.added = moveOp.snapshot

\* a call removed some favorites while the other user had the same pose as a
\* favorite and the caller had gained a favorite after the list was read
C29_MovedWhileOthersChanged ==
    /\ moveOp.phase = "done"
    /\ moveOp.status \in {200, 204}
    /\ moveOp.removed # {}
    /\ \E k \in moveOp.removed : \E u \in FavUsers \ {moveOp.user} : favoritos[<<u, k[2]>>] > 0
    /\ \E p \in FavPoses \ moveOp.snapshot : favoritos[<<moveOp.user, p>>] > 0

(***************************************************************************)
(* Paginated listings (SpecPage): list_posts_paginated and                 *)
(* get_portfolio_images.  page, limit and total_pages are u32.             *)
(***************************************************************************)
\* a u32 (or wider) number n is written <<n \div 2^16, n % 2^16>>: TLC's own
\* integers end at 2^31 - 1
Half == 2^16
U32Max == <<Half - 1, Half - 1>>
DefaultLimit == 20
MaxLimit == 100

Wide(n) == <<n \div Half, n % Half>>
Carry(hi, lo) == <<hi + (lo \div Half), lo % Half>>
Less(a, b) == a[1] < b[1] \/ (a[1] = b[1] /\ a[2] < b[2])
\* a + n, a * n and the quotient a / n for a small n, in unbounded arithmetic
Plus(a, n) == Carry(a[1], a[2] + n)
Times(a, n) == Carry(a[1] * n, a[2] * n)
Quotient(a, n) == <<a[1] \div n, (((a[1] % n) * Half) + a[2]) \div n>>
\* `as u32` and the wrapping of u32 arithmetic: the low 32 bits
Low32(a) == <<a[1] % Half, a[2]>>

\* Option<u32>::None in the query
Absent == <<-1, -1>>

unwrap_or(o, d) == IF o = Absent THEN d ELSE o

\* .min(100): the result fits one half
min(a, n) == IF Less(a, Wide(n)) THEN a[2] ELSE n

\* page.saturating_mul(limit)
saturating_mul(a, n) == IF Less(U32Max, Times(a, n)) THEN U32Max ELSE Times(a, n)

\* ((count as u32) + limit - 1) / limit behind `if count == 0 { 0 }`:
\* an overflowing + or - panics in a build with overflow checks and wraps in
\* one without, a division by zero panics in both
TotalPages(count, limit, build) ==
    LET sum == Plus(Low32(count), limit)
        diff == Plus(Low32(sum), -1)
    IN  IF count = Wide(0) THEN [panic |-> "", v |-> Wide(0)]
        ELSE IF build = "debug" /\ Less(U32Max, sum)
            THEN [panic |-> "attempt to add with overflow", v |-> Wide(0)]
        ELSE IF build = "debug" /\ diff[1] < 0
            THEN [panic |-> "attempt to subtract with overflow", v |-> Wide(0)]
        ELSE IF limit = 0
            THEN [panic |-> "attempt to divide by zero", v |-> Wide(0)]
        ELSE [panic |-> "", v |-> Quotient(Low32(diff), limit)]

PageQueries == {Absent, Wide(0), Wide(1), Wide(2), <<655, 23977>>, U32Max}
LimitQueries == {Absent, Wide(0), Wide(1), Wide(2), Wide(20), Wide(100), Wide(101), U32Max}
RowCounts == {Wide(0), Wide(1), Wide(2), Wide(20), Wide(21), Wide(101), U32Max}
Builds == {"debug", "release"}

InitPage ==
    /\ InitRequest
    /\ usuarios = AllUsers
    /\ resource = ""
    /\ files = EmptyDir
    /\ rows = NoRows
    /\ lastOp = NoOp
    /\ stores = <<>>

\* list_posts_paginated / get_portfolio_images after the extractors, on a
\* table of count rows: the use case fails and the error is returned, or
\* total_pages is computed and the response built, or the handler panics
ListPaginated(handler, page_q, limit_q, count, build) ==
    LET page == unwrap_or(page_q, Wide(0))
        limit == min(unwrap_or(limit_q, Wide(DefaultLimit)), MaxLimit)
        offset == saturating_mul(page, limit)
        total == TotalPages(count, limit, build)
        asked == [NoPage EXCEPT !.handler = handler, !.page = page_q, !.limit = limit_q,
                                !.count = count, !.build = build]
    IN  /\ \/ pageOp' = [asked EXCEPT !.status = 500]
           \/ pageOp' = IF total.panic # ""
                         THEN [asked EXCEPT !.panic = total.panic]
                         ELSE [asked EXCEPT !.status = 200,
                                            !.out = [page |-> page, limit |-> limit,
                                                     total_pages |-> total.v,
                                                     offset |-> offset]]
        /\ UNCHANGED <<raceVars, favVars, tagVars, sesionVars, loginVars>>
        /\ UNCHANGED <<clockVars, usuarios, pipelineVars, prevRejection, codecVars,
                       decoderVars, assetVars>>

\* the handlers keep nothing from one request to the next: one listing is
\* followed per behaviour
ListPaginatedAny ==
    /\ pc = "idle"
    /\ pageOp = NoPage
    /\ \E handler \in {"list_posts_paginated", "get_portfolio_images"},
          page_q \in PageQueries, limit_q \in LimitQueries, count \in RowCounts,
          build \in Builds :
         ListPaginated(handler, page_q, limit_q, count, build)

NextPage == ListPaginatedAny

SpecPage == InitPage /\ [][NextPage]_vars

\* C30: for every page, every limit (absent, 0, 1..100, above 100) and every
\* row count, a paginated listing whose query succeeded answers 200 with
\* limit = min(limit or 20, 100), total_pages = 0 when count = 0 and
\* otherwise the ceiling of count / limit, never panicking on a division by
\* zero or a 32-bit overflow, and reads from offset min(page * limit, 2^32 - 1).
C30_PaginationArithmetic ==
    pageOp.handler # "" =>
        /\ pageOp.panic = ""
        /\ pageOp.status \in {200, 500}
        /\ pageOp.status = 200 =>
              LET limit == IF pageOp.limit = Absent THEN 20
                           ELSE IF Less(pageOp.limit, Wide(100)) THEN pageOp.limit[2]
                           ELSE 100
                  page == IF pageOp.page = Absent THEN Wide(0) ELSE pageOp.page
                  product == Times(page, limit)
              IN  /\ pageOp.out.limit = limit
                  /\ pageOp.out.total_pages =
                        (IF pageOp.count = Wide(0) THEN Wide(0)
                         ELSE Quotient(Plus(pageOp.count, limit - 1), limit))
                  /\ pageOp.out.offset = (IF Less(U32Max, product) THEN U32Max ELSE product)
====
